---- MODULE Spec2Model ----
(***************************************************************************)
(* DeCent-Pay escrow contract (Soroban): the escrow and milestone state    *)
(* machines, the per-asset custody counters and the refund paths.          *)
(*                                                                         *)
(* Every contract call is one atomic transaction.  A call that returns an  *)
(* error, or that traps (missing authorization, a failed token transfer,   *)
(* unwrap of None), is rolled back by the host and leaves the storage as   *)
(* it was: such a call is a step that changes no variable.  The value a    *)
(* call returns is computed by the *_result operators, in the order of the *)
(* checks in the source.                                                   *)
(*                                                                         *)
(* Not modelled: strings (titles, descriptions, reasons) and the           *)
(* timestamps created_at / submitted_at / approved_at / disputed_at, which *)
(* no code path reads; the presence of a rejection or dispute reason is    *)
(* kept as a flag.  TTL extension of the instance storage is not modelled. *)
(* Amounts are i128 in the source; the amounts used here are small, so     *)
(* that no i128 or u32 arithmetic overflows.                               *)
(***************************************************************************)
EXTENDS Integers, Sequences, FiniteSets, TLC

\* ------------------------------------------------------------------ bounds
MaxEscrows == 1             \* escrows created in one behaviour
MaxDeadline == 720          \* create_escrow is called while the deadline it sets is at most this

\* ------------------------------------------------------ program constants
EMERGENCY_REFUND_DELAY == 2592000
MAX_EXTENSION == 2592000
MIN_DURATION == 3600
MAX_DURATION == 31536000
LEDGER_SECONDS == 5
REPUTATION_PER_MILESTONE == 10
REPUTATION_PER_ESCROW == 25
\* 10^16 in the source.  TLC integers are 32 bit: amounts are counted in
\* units of 5 * 10^14, in which the eligibility floor is 20.
MIN_REP_ELIGIBLE_ESCROW_VALUE == 20
FEE_DENOMINATOR == 10000
MAX_FEE_BP == 1000

\* ------------------------------------------------------------ input sets
None == "None"                        \* Option::None
ContractAddress == "contract"         \* env.current_contract_address()
Depositors == {"alice"}
Freelancers == {"bob"}
Accounts == {"alice", "bob", "carol"}
OwnerAccount == "owner"               \* the owner initialize was called with
Tokens == {"tokA"}                    \* whitelisted in Init
AllTokens == {"tokA", "tokB"}         \* tokB is whitelisted by whitelist_token only
TokenKeys == AllTokens \cup {ContractAddress}
Holders == Accounts \cup {ContractAddress}
TotalAmounts == {15, 20}
MilestoneLists == {<<10, 10>>, <<-5, 20>>}      \* milestone_amounts of create_escrow
Durations == {3600}
ArbiterCounts == {0}
Confirmations == {0}
ExtraSeconds == {0, 2592000, 2592001}
FeeInputs == {500, 1000, 1001}                  \* fee_bp of set_platform_fee_bp and initialize
\* the arguments of escrow_management::create_escrow that its checks read, valid and not
CreateDurations == {3599, 3600, 7200, 31536001}
CreateTotalAmounts == {-1, 0, 15, 20}             \* total_amount: negative, zero, positive
CreateMilestoneLists == {<<10, 10>>, <<20>>, [i \in 1 .. 21 |-> 1]}
\* the length of milestone_descriptions less the length of milestone_amounts (lib.rs
\* builds both from one vector of pairs: there it is 0)
DescriptionSkews == {0, 1}
CreateArbiterCounts == {0, 5, 6}
CreateConfirmations == {0, 1}
LedgerStarts == {7}                             \* ledger sequences at which escrows are created, besides 0

EscrowStatus == {"Pending", "InProgress", "Released", "Refunded", "Disputed", "Expired"}
MilestoneStatus == {"NotStarted", "Submitted", "Approved", "Disputed", "Resolved", "Rejected"}

VARIABLES
  escrows,          \* DataKey::Escrow(id) -> EscrowData
  milestones,       \* DataKey::Milestone(id, index) -> Milestone, as id -> (index -> Milestone)
  escrowed,         \* DataKey::EscrowedAmount(token key) -> i128
  fees,             \* DataKey::TotalFeesByToken(token key) -> i128
  next_escrow_id,   \* DataKey::NextEscrowId
  user_escrows,     \* DataKey::UserEscrows(account) -> Vec<u32>
  reputation,       \* DataKey::Reputation(account) -> u32
  completed,        \* DataKey::CompletedEscrows(account) -> u32
  platform_fee_bp,  \* DataKey::PlatformFeeBP
  paused,           \* DataKey::JobCreationPaused
  whitelisted,      \* DataKey::WhitelistedToken(token) -> bool, as the set of tokens mapped to true
  ledger,           \* env.ledger().sequence()
  balances,         \* per token key and holder: the holder's balance of the asset, relative to the start
  owner,            \* DataKey::Owner, None while the contract is not initialized
  pc,               \* the call in progress: the number of its instructions executed, 0 when no call is
  call,             \* the call in progress: its operation and arguments
  saved,            \* the storage at the start of the call in progress, which a failure restores
  trapped           \* whether the last call executed instruction by instruction ended in a trap

vars == <<escrows, milestones, escrowed, fees, next_escrow_id, user_escrows,
          reputation, completed, platform_fee_bp, paused, whitelisted, ledger,
          balances, owner>>

admin_vars == <<platform_fee_bp, paused, whitelisted, owner>>

\* the position of a call that is executed instruction by instruction
step_vars == <<pc, call, saved, trapped>>

all_vars == <<vars, step_vars>>

NoCall == [op |-> "none"]

\* ---------------------------------------------------------------- helpers
EscrowIds == DOMAIN escrows

\* escrow_core::get_escrow(..).is_none()
escrow_is_none(escrow_id) == escrow_id \notin DOMAIN escrows

\* escrow_core::require_valid_escrow
require_valid_escrow(escrow_id) ==
  IF escrow_id = 0 \/ escrow_is_none(escrow_id) THEN "EscrowNotFound" ELSE "Ok"

\* escrow.token.unwrap_or(env.current_contract_address())
token_key(token) == IF token = None THEN ContractAddress ELSE token

\* escrow_core::is_whitelisted_token
is_whitelisted_token(token) ==
  IF token = None THEN TRUE ELSE token \in whitelisted

\* a variant of calculate_fee that rounds up
calculate_fee_ceil(amount) ==
  IF platform_fee_bp = 0 THEN 0
  ELSE (amount * platform_fee_bp + FEE_DENOMINATOR - 1) \div FEE_DENOMINATOR

\* escrow_core::calculate_fee
calculate_fee(amount) ==
  IF platform_fee_bp = 0 THEN 0 ELSE (amount * platform_fee_bp) \div FEE_DENOMINATOR

\* a variant of add_user_escrow that puts the id at the front of the index
add_user_escrow_front(index, user, escrow_id) ==
  [index EXCEPT ![user] = <<escrow_id>> \o @]

\* escrow_core::add_user_escrow, applied to a whole index
add_user_escrow(index, user, escrow_id) ==
  [index EXCEPT ![user] = Append(@, escrow_id)]

\* token::Client::transfer: the token contract traps on a negative amount, and
\* may refuse for reasons of its own (token_ok = FALSE: a balance that is too
\* small, a frozen account).  The balance the contract holds of an asset is
\* state of the token contract and includes what others sent to the contract's
\* address, so it is not bounded by what the escrows deposited.
transfer_ok(amount, token_ok) ==
  token_ok /\ amount >= 0

\* the balances after token::Client::transfer(from, to, amount) of the asset of key
transfer(key, from, to, amount) ==
  [balances EXCEPT ![key] = [h \in Holders |->
     IF h = from /\ h # to THEN @[h] - amount
     ELSE IF h = to /\ h # from THEN @[h] + amount
     ELSE @[h]]]

\* ------------------------------------------------------------------- Init
\* The storage after initialize(owner, fee_collector, MAX_FEE_BP) and
\* whitelist_token(tokA); no escrow exists.
Init ==
  /\ escrows = <<>>
  /\ milestones = <<>>
  /\ escrowed = [k \in TokenKeys |-> 0]
  /\ fees = [k \in TokenKeys |-> 0]
  /\ next_escrow_id = 1
  /\ user_escrows = [a \in Accounts |-> <<>>]
  /\ reputation = [a \in Accounts |-> 0]
  /\ completed = [a \in Accounts |-> 0]
  /\ platform_fee_bp = MAX_FEE_BP
  /\ paused = FALSE
  /\ whitelisted = {"tokA"}
  /\ ledger = 0
  /\ balances = [k \in TokenKeys |-> [h \in Holders |-> 0]]
  /\ owner = OwnerAccount
  /\ pc = 0
  /\ call = NoCall
  /\ saved = <<>>
  /\ trapped = FALSE

\* ------------------------------------------------ escrow_management.rs
\* The value create_escrow returns up to the token transfer: the checks of
\* the source in their order ("AuthFailed" is the host's trap on require_auth)
\* a variant of create_escrow's checks that compares the two lengths first
create_escrow_result_count_first(authorized, arbiters, required_confirmations, milestone_amounts, n_descriptions, token, duration) ==
  IF ~authorized THEN "AuthFailed"
  ELSE IF Len(milestone_amounts) # n_descriptions THEN "MilestoneCountMismatch"
  ELSE IF paused THEN "JobCreationPaused"
  ELSE IF duration < MIN_DURATION \/ duration > MAX_DURATION THEN "InvalidDuration"
  ELSE IF Len(milestone_amounts) > 20 THEN "TooManyMilestones"
  ELSE IF arbiters > 5 THEN "TooManyArbiters"
  ELSE IF required_confirmations > arbiters THEN "InvalidConfirmations"
  ELSE IF ~is_whitelisted_token(token) THEN "TokenNotWhitelisted"
  ELSE "Ok"

\* a variant of create_escrow's checks that counts the arbiters before the milestones
create_escrow_result_arbiters_first(authorized, arbiters, required_confirmations, milestone_amounts, n_descriptions, token, duration) ==
  IF ~authorized THEN "AuthFailed"
  ELSE IF paused THEN "JobCreationPaused"
  ELSE IF duration < MIN_DURATION \/ duration > MAX_DURATION THEN "InvalidDuration"
  ELSE IF Len(milestone_amounts) # n_descriptions THEN "MilestoneCountMismatch"
  ELSE IF arbiters > 5 THEN "TooManyArbiters"
  ELSE IF Len(milestone_amounts) > 20 THEN "TooManyMilestones"
  ELSE IF required_confirmations > arbiters THEN "InvalidConfirmations"
  ELSE IF ~is_whitelisted_token(token) THEN "TokenNotWhitelisted"
  ELSE "Ok"

create_escrow_result(authorized, arbiters, required_confirmations, milestone_amounts, n_descriptions, token, duration) ==
  IF ~authorized THEN "AuthFailed"
  ELSE IF paused THEN "JobCreationPaused"
  ELSE IF duration < MIN_DURATION \/ duration > MAX_DURATION THEN "InvalidDuration"
  ELSE IF Len(milestone_amounts) # n_descriptions THEN "MilestoneCountMismatch"
  ELSE IF Len(milestone_amounts) > 20 THEN "TooManyMilestones"
  ELSE IF arbiters > 5 THEN "TooManyArbiters"
  ELSE IF required_confirmations > arbiters THEN "InvalidConfirmations"
  ELSE IF ~is_whitelisted_token(token) THEN "TokenNotWhitelisted"
  ELSE "Ok"

\* a variant of new_escrow whose deadline adds the duration in seconds to the sequence
new_escrow_deadline_seconds(depositor, beneficiary, arbiters, required_confirmations, token, total_amount, n_milestones, duration) ==
  [ depositor |-> depositor,
    beneficiary |-> beneficiary,
    arbiters |-> arbiters,
    required_confirmations |-> required_confirmations,
    token |-> token,
    total_amount |-> total_amount,
    paid_amount |-> 0,
    platform_fee |-> calculate_fee(total_amount),
    deadline |-> ledger + duration,
    status |-> "Pending",
    work_started |-> FALSE,
    milestone_count |-> n_milestones,
    is_open_job |-> (beneficiary = None) ]

\* EscrowData as create_escrow builds it
new_escrow(depositor, beneficiary, arbiters, required_confirmations, token, total_amount, n_milestones, duration) ==
  [ depositor |-> depositor,
    beneficiary |-> beneficiary,
    arbiters |-> arbiters,
    required_confirmations |-> required_confirmations,
    token |-> token,
    total_amount |-> total_amount,
    paid_amount |-> 0,
    platform_fee |-> calculate_fee(total_amount),
    deadline |-> ledger + (duration \div LEDGER_SECONDS),
    status |-> "Pending",
    work_started |-> FALSE,
    milestone_count |-> n_milestones,
    is_open_job |-> (beneficiary = None) ]

\* Milestone as create_escrow builds it
new_milestone(amount) ==
  [ amount |-> amount,
    status |-> "NotStarted",
    disputed_by |-> None,
    dispute_reason |-> FALSE,
    rejection_reason |-> FALSE ]

\* the milestones create_escrow stores: index i (from 0) holds milestone_amounts[i + 1]
new_milestones(milestone_amounts) ==
  [i \in 0 .. (Len(milestone_amounts) - 1) |-> new_milestone(milestone_amounts[i + 1])]

\* a variant of the write that drops the other keys of the family
store_alone(map, key, value) ==
  [k \in {key} |-> value]

\* storage().instance().set(key, value) on a keyed family
store(map, key, value) ==
  [k \in (DOMAIN map) \cup {key} |-> IF k = key THEN value ELSE map[k]]

create_escrow(depositor, authorized, beneficiary, arbiters, required_confirmations, milestone_amounts, n_descriptions, token, total_amount, duration, token_ok) ==
  LET result == create_escrow_result(authorized, arbiters, required_confirmations,
                                     milestone_amounts, n_descriptions, token, duration)
      escrow_id == next_escrow_id
      key == token_key(token)
      escrow_data == new_escrow(depositor, beneficiary, arbiters, required_confirmations,
                                token, total_amount, Len(milestone_amounts), duration)
      index == add_user_escrow(user_escrows, depositor, escrow_id)
  IN
  IF result = "Ok" /\ transfer_ok(total_amount, token_ok)
  THEN /\ next_escrow_id' = next_escrow_id + 1
       /\ balances' = transfer(key, depositor, ContractAddress, total_amount)
       /\ escrowed' = [escrowed EXCEPT ![key] = @ + total_amount]
       /\ escrows' = store(escrows, escrow_id, escrow_data)
       /\ milestones' = store(milestones, escrow_id, new_milestones(milestone_amounts))
       /\ user_escrows' = IF beneficiary # None
                          THEN add_user_escrow(index, beneficiary, escrow_id)
                          ELSE index
       /\ UNCHANGED <<fees, reputation, completed, admin_vars, ledger>>
  ELSE UNCHANGED vars

\* ---------------------------------------------------- work_lifecycle.rs
\* a variant of start_work's checks without the checks of status and work_started
start_work_result_no_started(escrow_id, beneficiary, authorized) ==
  IF ~authorized THEN "AuthFailed"
  ELSE IF require_valid_escrow(escrow_id) # "Ok" THEN "EscrowNotFound"
  ELSE IF escrows[escrow_id].beneficiary # beneficiary THEN "OnlyBeneficiary"
  ELSE "Ok"

\* a variant of start_work's checks without the check of the caller
start_work_result_any_caller(escrow_id, beneficiary, authorized) ==
  IF ~authorized THEN "AuthFailed"
  ELSE IF require_valid_escrow(escrow_id) # "Ok" THEN "EscrowNotFound"
  ELSE IF escrows[escrow_id].status # "Pending" THEN "InvalidEscrowStatus"
  ELSE IF escrows[escrow_id].work_started THEN "WorkAlreadyStarted"
  ELSE "Ok"

start_work_result(escrow_id, beneficiary, authorized) ==
  IF ~authorized THEN "AuthFailed"
  ELSE IF require_valid_escrow(escrow_id) # "Ok" THEN "EscrowNotFound"
  ELSE IF escrows[escrow_id].beneficiary # beneficiary THEN "OnlyBeneficiary"
  ELSE IF escrows[escrow_id].status # "Pending" THEN "InvalidEscrowStatus"
  ELSE IF escrows[escrow_id].work_started THEN "WorkAlreadyStarted"
  ELSE "Ok"

\* a variant of start_work that leaves the status as it is
start_work_keeps_status(escrow_id, beneficiary, authorized) ==
  IF start_work_result(escrow_id, beneficiary, authorized) = "Ok"
  THEN LET escrow == escrows[escrow_id]
           key == token_key(escrow.token)
       IN
       /\ escrows' = [escrows EXCEPT ![escrow_id].work_started = TRUE]
       /\ fees' = IF escrow.platform_fee > 0
                  THEN [fees EXCEPT ![key] = @ + escrow.platform_fee]
                  ELSE fees
       /\ UNCHANGED <<milestones, escrowed, next_escrow_id, user_escrows, reputation,
                      completed, admin_vars, ledger, balances>>
  ELSE UNCHANGED vars

start_work(escrow_id, beneficiary, authorized) ==
  IF start_work_result(escrow_id, beneficiary, authorized) = "Ok"
  THEN LET escrow == escrows[escrow_id]
           key == token_key(escrow.token)
       IN
       /\ escrows' = [escrows EXCEPT ![escrow_id].work_started = TRUE,
                                     ![escrow_id].status = "InProgress"]
       /\ fees' = IF escrow.platform_fee > 0
                  THEN [fees EXCEPT ![key] = @ + escrow.platform_fee]
                  ELSE fees
       /\ UNCHANGED <<milestones, escrowed, next_escrow_id, user_escrows, reputation,
                      completed, admin_vars, ledger, balances>>
  ELSE UNCHANGED vars

\* the checks shared by submit_milestone and resubmit_milestone, which differ
\* in the milestone status they require
beneficiary_milestone_result(escrow_id, milestone_index, beneficiary, authorized, required) ==
  IF ~authorized THEN "AuthFailed"
  ELSE IF require_valid_escrow(escrow_id) # "Ok" THEN "EscrowNotFound"
  ELSE IF escrows[escrow_id].beneficiary # beneficiary THEN "OnlyBeneficiary"
  ELSE IF escrows[escrow_id].status # "InProgress" THEN "InvalidEscrowStatus"
  ELSE IF milestone_index >= escrows[escrow_id].milestone_count THEN "InvalidMilestone"
  ELSE IF milestone_index \notin DOMAIN milestones[escrow_id] THEN "InvalidMilestone"
  ELSE IF milestones[escrow_id][milestone_index].status # required
       THEN "MilestoneAlreadyProcessed"
  ELSE "Ok"

submit_milestone_result(escrow_id, milestone_index, beneficiary, authorized) ==
  beneficiary_milestone_result(escrow_id, milestone_index, beneficiary, authorized,
                               "NotStarted")

submit_milestone(escrow_id, milestone_index, beneficiary, authorized) ==
  IF submit_milestone_result(escrow_id, milestone_index, beneficiary, authorized) = "Ok"
  THEN /\ milestones' = [milestones EXCEPT ![escrow_id][milestone_index].status = "Submitted"]
       /\ UNCHANGED <<escrows, escrowed, fees, next_escrow_id, user_escrows, reputation,
                      completed, admin_vars, ledger, balances>>
  ELSE UNCHANGED vars

\* a variant of resubmit_milestone's checks that requires the milestone to be
\* Approved instead of Rejected
resubmit_milestone_result_approved(escrow_id, milestone_index, beneficiary, authorized) ==
  beneficiary_milestone_result(escrow_id, milestone_index, beneficiary, authorized,
                               "Approved")

resubmit_milestone_result(escrow_id, milestone_index, beneficiary, authorized) ==
  beneficiary_milestone_result(escrow_id, milestone_index, beneficiary, authorized,
                               "Rejected")

resubmit_milestone(escrow_id, milestone_index, beneficiary, authorized) ==
  IF resubmit_milestone_result(escrow_id, milestone_index, beneficiary, authorized) = "Ok"
  THEN /\ milestones' = [milestones EXCEPT
                           ![escrow_id][milestone_index].status = "Submitted",
                           ![escrow_id][milestone_index].rejection_reason = FALSE]
       /\ UNCHANGED <<escrows, escrowed, fees, next_escrow_id, user_escrows, reputation,
                      completed, admin_vars, ledger, balances>>
  ELSE UNCHANGED vars

\* a variant of the depositor's checks without the check of the escrow status
depositor_milestone_result_no_status(escrow_id, milestone_index, depositor, authorized) ==
  IF ~authorized THEN "AuthFailed"
  ELSE IF require_valid_escrow(escrow_id) # "Ok" THEN "EscrowNotFound"
  ELSE IF escrows[escrow_id].depositor # depositor THEN "OnlyDepositor"
  ELSE IF milestone_index >= escrows[escrow_id].milestone_count THEN "InvalidMilestone"
  ELSE IF milestone_index \notin DOMAIN milestones[escrow_id] THEN "InvalidMilestone"
  ELSE IF milestones[escrow_id][milestone_index].status # "Submitted"
       THEN "MilestoneNotSubmitted"
  ELSE "Ok"

\* the checks shared by approve_milestone and reject_milestone
depositor_milestone_result(escrow_id, milestone_index, depositor, authorized) ==
  IF ~authorized THEN "AuthFailed"
  ELSE IF require_valid_escrow(escrow_id) # "Ok" THEN "EscrowNotFound"
  ELSE IF escrows[escrow_id].depositor # depositor THEN "OnlyDepositor"
  ELSE IF escrows[escrow_id].status # "InProgress" THEN "EscrowNotActive"
  ELSE IF milestone_index >= escrows[escrow_id].milestone_count THEN "InvalidMilestone"
  ELSE IF milestone_index \notin DOMAIN milestones[escrow_id] THEN "InvalidMilestone"
  ELSE IF milestones[escrow_id][milestone_index].status # "Submitted"
       THEN "MilestoneNotSubmitted"
  ELSE "Ok"

approve_milestone_result(escrow_id, milestone_index, depositor, authorized) ==
  depositor_milestone_result(escrow_id, milestone_index, depositor, authorized)

\* work_lifecycle::update_reputation, applied to a whole table
update_reputation(table, user, points) ==
  [table EXCEPT ![user] = @ + points]

\* a variant of the payment that assigns the amount instead of adding it
paid_after_assign(paid_amount, amount) == amount

\* escrow.paid_amount += amount
paid_after(paid_amount, amount) == paid_amount + amount

\* the reputation table after an approval that leaves paid_amount at paid
reputation_after(escrow, paid) ==
  LET eligible == escrow.total_amount >= MIN_REP_ELIGIBLE_ESCROW_VALUE
      r1 == IF eligible
            THEN update_reputation(reputation, escrow.beneficiary, REPUTATION_PER_MILESTONE)
            ELSE reputation
      r2 == IF eligible /\ paid = escrow.total_amount
            THEN update_reputation(
                   update_reputation(r1, escrow.beneficiary, REPUTATION_PER_ESCROW),
                   escrow.depositor, REPUTATION_PER_ESCROW)
            ELSE r1
  IN r2

\* a variant of the completed-escrow counters without the eligibility floor
completed_after_any_value(escrow, paid) ==
  IF paid = escrow.total_amount
  THEN LET c1 == [completed EXCEPT ![escrow.beneficiary] = @ + 1]
       IN [c1 EXCEPT ![escrow.depositor] = @ + 1]
  ELSE completed

\* the completed-escrow counters after an approval that leaves paid_amount at paid
completed_after(escrow, paid) ==
  IF paid = escrow.total_amount /\ escrow.total_amount >= MIN_REP_ELIGIBLE_ESCROW_VALUE
  THEN LET c1 == [completed EXCEPT ![escrow.beneficiary] = @ + 1]
       IN [c1 EXCEPT ![escrow.depositor] = @ + 1]
  ELSE completed

approve_milestone(escrow_id, milestone_index, depositor, authorized, token_ok) ==
  IF approve_milestone_result(escrow_id, milestone_index, depositor, authorized) = "Ok"
  THEN LET escrow == escrows[escrow_id]
           amount == milestones[escrow_id][milestone_index].amount
           key == token_key(escrow.token)
           paid == paid_after(escrow.paid_amount, amount)
       IN
       IF escrow.beneficiary # None /\ transfer_ok(amount, token_ok)
       THEN /\ milestones' = [milestones EXCEPT
                                ![escrow_id][milestone_index].status = "Approved"]
            /\ escrowed' = [escrowed EXCEPT ![key] = @ - amount]
            /\ balances' = transfer(key, ContractAddress, escrow.beneficiary, amount)
            /\ reputation' = reputation_after(escrow, paid)
            /\ completed' = completed_after(escrow, paid)
            /\ escrows' = [escrows EXCEPT
                             ![escrow_id].paid_amount = paid,
                             ![escrow_id].status =
                               IF paid = escrow.total_amount THEN "Released" ELSE @]
            /\ UNCHANGED <<fees, next_escrow_id, user_escrows, admin_vars, ledger>>
       ELSE UNCHANGED vars
  ELSE UNCHANGED vars

reject_milestone_result(escrow_id, milestone_index, depositor, authorized) ==
  depositor_milestone_result(escrow_id, milestone_index, depositor, authorized)

reject_milestone(escrow_id, milestone_index, depositor, authorized) ==
  IF reject_milestone_result(escrow_id, milestone_index, depositor, authorized) = "Ok"
  THEN /\ milestones' = [milestones EXCEPT
                           ![escrow_id][milestone_index].status = "Rejected",
                           ![escrow_id][milestone_index].rejection_reason = TRUE]
       /\ UNCHANGED <<escrows, escrowed, fees, next_escrow_id, user_escrows, reputation,
                      completed, admin_vars, ledger, balances>>
  ELSE UNCHANGED vars

\* a variant of dispute_milestone's checks without the check of the caller
dispute_milestone_result_no_role(escrow_id, milestone_index, disputer, authorized) ==
  IF ~authorized THEN "AuthFailed"
  ELSE IF require_valid_escrow(escrow_id) # "Ok" THEN "EscrowNotFound"
  ELSE IF escrows[escrow_id].status # "InProgress" THEN "EscrowNotActive"
  ELSE IF milestone_index >= escrows[escrow_id].milestone_count THEN "InvalidMilestone"
  ELSE IF milestone_index \notin DOMAIN milestones[escrow_id] THEN "InvalidMilestone"
  ELSE IF /\ milestones[escrow_id][milestone_index].status # "Submitted"
          /\ milestones[escrow_id][milestone_index].status # "Approved"
       THEN "MilestoneNotSubmitted"
  ELSE "Ok"

\* a variant of dispute_milestone's checks without the check of the escrow status
dispute_milestone_result_no_status(escrow_id, milestone_index, disputer, authorized) ==
  IF ~authorized THEN "AuthFailed"
  ELSE IF require_valid_escrow(escrow_id) # "Ok" THEN "EscrowNotFound"
  ELSE IF escrows[escrow_id].depositor # disputer /\ escrows[escrow_id].beneficiary # disputer
       THEN "OnlyDepositor"
  ELSE IF milestone_index >= escrows[escrow_id].milestone_count THEN "InvalidMilestone"
  ELSE IF milestone_index \notin DOMAIN milestones[escrow_id] THEN "InvalidMilestone"
  ELSE IF /\ milestones[escrow_id][milestone_index].status # "Submitted"
          /\ milestones[escrow_id][milestone_index].status # "Approved"
       THEN "MilestoneNotSubmitted"
  ELSE "Ok"

dispute_milestone_result(escrow_id, milestone_index, disputer, authorized) ==
  IF ~authorized THEN "AuthFailed"
  ELSE IF require_valid_escrow(escrow_id) # "Ok" THEN "EscrowNotFound"
  ELSE IF escrows[escrow_id].depositor # disputer /\ escrows[escrow_id].beneficiary # disputer
       THEN "OnlyDepositor"
  ELSE IF escrows[escrow_id].status # "InProgress" THEN "EscrowNotActive"
  ELSE IF milestone_index >= escrows[escrow_id].milestone_count THEN "InvalidMilestone"
  ELSE IF milestone_index \notin DOMAIN milestones[escrow_id] THEN "InvalidMilestone"
  ELSE IF /\ milestones[escrow_id][milestone_index].status # "Submitted"
          /\ milestones[escrow_id][milestone_index].status # "Approved"
       THEN "MilestoneNotSubmitted"
  ELSE "Ok"

dispute_milestone(escrow_id, milestone_index, disputer, authorized) ==
  IF dispute_milestone_result(escrow_id, milestone_index, disputer, authorized) = "Ok"
  THEN /\ milestones' = [milestones EXCEPT
                           ![escrow_id][milestone_index].status = "Disputed",
                           ![escrow_id][milestone_index].disputed_by = disputer,
                           ![escrow_id][milestone_index].dispute_reason = TRUE]
       /\ escrows' = [escrows EXCEPT ![escrow_id].status = "Disputed"]
       /\ UNCHANGED <<escrowed, fees, next_escrow_id, user_escrows, reputation,
                      completed, admin_vars, ledger, balances>>
  ELSE UNCHANGED vars


\* ----------------------------------------------------- refund_system.rs
\* a variant of refund_escrow's checks that tests work_started before the status
refund_escrow_result_work_first(escrow_id, depositor, authorized) ==
  IF ~authorized THEN "AuthFailed"
  ELSE IF require_valid_escrow(escrow_id) # "Ok" THEN "EscrowNotFound"
  ELSE IF escrows[escrow_id].depositor # depositor THEN "OnlyDepositor"
  ELSE IF escrows[escrow_id].work_started THEN "WorkAlreadyStarted"
  ELSE IF escrows[escrow_id].status # "Pending" THEN "InvalidEscrowStatus"
  ELSE IF ledger >= escrows[escrow_id].deadline THEN "DeadlineNotPassed"
  ELSE IF escrows[escrow_id].total_amount - escrows[escrow_id].paid_amount <= 0
       THEN "NothingToRefund"
  ELSE "Ok"

\* a variant of refund_escrow's checks that still refunds at the deadline itself
refund_escrow_result_at_deadline(escrow_id, depositor, authorized) ==
  IF ~authorized THEN "AuthFailed"
  ELSE IF require_valid_escrow(escrow_id) # "Ok" THEN "EscrowNotFound"
  ELSE IF escrows[escrow_id].depositor # depositor THEN "OnlyDepositor"
  ELSE IF escrows[escrow_id].status # "Pending" THEN "InvalidEscrowStatus"
  ELSE IF escrows[escrow_id].work_started THEN "WorkAlreadyStarted"
  ELSE IF ledger > escrows[escrow_id].deadline THEN "DeadlineNotPassed"
  ELSE IF escrows[escrow_id].total_amount - escrows[escrow_id].paid_amount <= 0
       THEN "NothingToRefund"
  ELSE "Ok"

refund_escrow_result(escrow_id, depositor, authorized) ==
  IF ~authorized THEN "AuthFailed"
  ELSE IF require_valid_escrow(escrow_id) # "Ok" THEN "EscrowNotFound"
  ELSE IF escrows[escrow_id].depositor # depositor THEN "OnlyDepositor"
  ELSE IF escrows[escrow_id].status # "Pending" THEN "InvalidEscrowStatus"
  ELSE IF escrows[escrow_id].work_started THEN "WorkAlreadyStarted"
  ELSE IF ledger >= escrows[escrow_id].deadline THEN "DeadlineNotPassed"
  ELSE IF escrows[escrow_id].total_amount - escrows[escrow_id].paid_amount <= 0
       THEN "NothingToRefund"
  ELSE "Ok"

refund_escrow(escrow_id, depositor, authorized, token_ok) ==
  IF refund_escrow_result(escrow_id, depositor, authorized) = "Ok"
  THEN LET escrow == escrows[escrow_id]
           refund_amount == escrow.total_amount - escrow.paid_amount
           key == token_key(escrow.token)
       IN
       IF transfer_ok(refund_amount, token_ok)
       THEN /\ escrows' = [escrows EXCEPT ![escrow_id].status = "Refunded"]
            /\ escrowed' = [escrowed EXCEPT ![key] = @ - refund_amount]
            /\ balances' = transfer(key, ContractAddress, depositor, refund_amount)
            /\ UNCHANGED <<milestones, fees, next_escrow_id, user_escrows, reputation,
                           completed, admin_vars, ledger>>
       ELSE UNCHANGED vars
  ELSE UNCHANGED vars

\* a variant of emergency_refund_after_deadline's checks that refuses a Released
\* escrow only
emergency_refund_result_released_only(escrow_id, depositor, authorized) ==
  IF ~authorized THEN "AuthFailed"
  ELSE IF require_valid_escrow(escrow_id) # "Ok" THEN "EscrowNotFound"
  ELSE IF escrows[escrow_id].depositor # depositor THEN "OnlyDepositor"
  ELSE IF ledger <= escrows[escrow_id].deadline + EMERGENCY_REFUND_DELAY
       THEN "EmergencyPeriodNotReached"
  ELSE IF escrows[escrow_id].status = "Released" THEN "CannotRefund"
  ELSE IF escrows[escrow_id].total_amount - escrows[escrow_id].paid_amount <= 0
       THEN "NothingToRefund"
  ELSE "Ok"

\* a variant of emergency_refund_after_deadline's checks that accepts the call at the
\* last sequence of the grace period
emergency_refund_result_at_grace(escrow_id, depositor, authorized) ==
  IF ~authorized THEN "AuthFailed"
  ELSE IF require_valid_escrow(escrow_id) # "Ok" THEN "EscrowNotFound"
  ELSE IF escrows[escrow_id].depositor # depositor THEN "OnlyDepositor"
  ELSE IF ledger < escrows[escrow_id].deadline + EMERGENCY_REFUND_DELAY
       THEN "EmergencyPeriodNotReached"
  ELSE IF escrows[escrow_id].status = "Released" \/ escrows[escrow_id].status = "Refunded"
       THEN "CannotRefund"
  ELSE IF escrows[escrow_id].total_amount - escrows[escrow_id].paid_amount <= 0
       THEN "NothingToRefund"
  ELSE "Ok"

emergency_refund_after_deadline_result(escrow_id, depositor, authorized) ==
  IF ~authorized THEN "AuthFailed"
  ELSE IF require_valid_escrow(escrow_id) # "Ok" THEN "EscrowNotFound"
  ELSE IF escrows[escrow_id].depositor # depositor THEN "OnlyDepositor"
  ELSE IF ledger <= escrows[escrow_id].deadline + EMERGENCY_REFUND_DELAY
       THEN "EmergencyPeriodNotReached"
  ELSE IF escrows[escrow_id].status = "Released" \/ escrows[escrow_id].status = "Refunded"
       THEN "CannotRefund"
  ELSE IF escrows[escrow_id].total_amount - escrows[escrow_id].paid_amount <= 0
       THEN "NothingToRefund"
  ELSE "Ok"

\* the transfer of the emergency refund: a token is transferred, the branch
\* of the native asset is empty and moves nothing
emergency_transfer_amount(token, refund_amount) ==
  IF token # None THEN refund_amount ELSE 0

emergency_refund_after_deadline(escrow_id, depositor, authorized, token_ok) ==
  IF emergency_refund_after_deadline_result(escrow_id, depositor, authorized) = "Ok"
  THEN LET escrow == escrows[escrow_id]
           refund_amount == escrow.total_amount - escrow.paid_amount
           key == token_key(escrow.token)
           moved == emergency_transfer_amount(escrow.token, refund_amount)
       IN
       IF escrow.token = None \/ transfer_ok(refund_amount, token_ok)
       THEN /\ escrows' = [escrows EXCEPT ![escrow_id].status = "Expired"]
            /\ escrowed' = [escrowed EXCEPT ![key] = @ - refund_amount]
            /\ balances' = transfer(key, ContractAddress, depositor, moved)
            /\ UNCHANGED <<milestones, fees, next_escrow_id, user_escrows, reputation,
                           completed, admin_vars, ledger>>
       ELSE UNCHANGED vars
  ELSE UNCHANGED vars

\* a variant of extend_deadline's checks without the check of the status
extend_deadline_result_any_status(escrow_id, depositor, authorized, extra_seconds) ==
  IF ~authorized THEN "AuthFailed"
  ELSE IF extra_seconds = 0 \/ extra_seconds > MAX_EXTENSION THEN "InvalidExtension"
  ELSE IF require_valid_escrow(escrow_id) # "Ok" THEN "EscrowNotFound"
  ELSE IF escrows[escrow_id].depositor # depositor THEN "OnlyDepositor"
  ELSE "Ok"

extend_deadline_result(escrow_id, depositor, authorized, extra_seconds) ==
  IF ~authorized THEN "AuthFailed"
  ELSE IF extra_seconds = 0 \/ extra_seconds > MAX_EXTENSION THEN "InvalidExtension"
  ELSE IF require_valid_escrow(escrow_id) # "Ok" THEN "EscrowNotFound"
  ELSE IF escrows[escrow_id].depositor # depositor THEN "OnlyDepositor"
  ELSE IF escrows[escrow_id].status # "InProgress" /\ escrows[escrow_id].status # "Pending"
       THEN "CannotExtend"
  ELSE "Ok"

extend_deadline(escrow_id, depositor, authorized, extra_seconds) ==
  IF extend_deadline_result(escrow_id, depositor, authorized, extra_seconds) = "Ok"
  THEN /\ escrows' = [escrows EXCEPT ![escrow_id].deadline = @ + extra_seconds]
       /\ UNCHANGED <<milestones, escrowed, fees, next_escrow_id, user_escrows,
                      reputation, completed, admin_vars, ledger, balances>>
  ELSE UNCHANGED vars

\* ------------------------------------------------------- marketplace.rs
\* a variant of accept_freelancer's checks without the check of the status
accept_freelancer_result_no_status(escrow_id, depositor, authorized) ==
  IF ~authorized THEN "AuthFailed"
  ELSE IF require_valid_escrow(escrow_id) # "Ok" THEN "EscrowNotFound"
  ELSE IF escrows[escrow_id].depositor # depositor THEN "OnlyDepositor"
  ELSE IF ~escrows[escrow_id].is_open_job THEN "NotOpenJob"
  ELSE "Ok"

accept_freelancer_result(escrow_id, depositor, authorized) ==
  IF ~authorized THEN "AuthFailed"
  ELSE IF require_valid_escrow(escrow_id) # "Ok" THEN "EscrowNotFound"
  ELSE IF escrows[escrow_id].depositor # depositor THEN "OnlyDepositor"
  ELSE IF ~escrows[escrow_id].is_open_job THEN "NotOpenJob"
  ELSE IF escrows[escrow_id].status # "Pending" THEN "JobClosed"
  ELSE "Ok"

accept_freelancer(escrow_id, depositor, authorized, freelancer) ==
  IF accept_freelancer_result(escrow_id, depositor, authorized) = "Ok"
  THEN /\ escrows' = [escrows EXCEPT ![escrow_id].beneficiary = freelancer,
                                     ![escrow_id].is_open_job = FALSE]
       /\ user_escrows' = add_user_escrow(user_escrows, freelancer, escrow_id)
       /\ UNCHANGED <<milestones, escrowed, fees, next_escrow_id, reputation,
                      completed, admin_vars, ledger, balances>>
  ELSE UNCHANGED vars

\* ------------------------------------------------------------- admin.rs
\* initialize makes no require_auth: authorized, the presence of the
\* authorization proof of new_owner, is not read
initialize_result(new_owner, fee_bp, authorized) ==
  IF owner # None THEN "AlreadyInitialized"
  ELSE IF fee_bp > MAX_FEE_BP THEN "FeeTooHigh"
  ELSE "Ok"

initialize(new_owner, fee_bp, authorized) ==
  IF initialize_result(new_owner, fee_bp, authorized) = "Ok"
  THEN /\ owner' = new_owner
       /\ platform_fee_bp' = fee_bp
       /\ next_escrow_id' = 1
       /\ paused' = FALSE
       /\ UNCHANGED <<escrows, milestones, escrowed, fees, user_escrows, reputation,
                      completed, whitelisted, ledger, balances>>
  ELSE UNCHANGED vars

\* admin::require_owner; authorized is the presence of the owner's proof
require_owner(authorized) ==
  IF owner = None THEN "NotInitialized"
  ELSE IF ~authorized THEN "AuthFailed"
  ELSE "Ok"

\* a variant of set_platform_fee_bp's checks without the limit on the rate
set_platform_fee_bp_result_no_limit(fee_bp, authorized) ==
  IF require_owner(authorized) # "Ok" THEN require_owner(authorized)
  ELSE "Ok"

set_platform_fee_bp_result(fee_bp, authorized) ==
  IF require_owner(authorized) # "Ok" THEN require_owner(authorized)
  ELSE IF fee_bp > MAX_FEE_BP THEN "FeeTooHigh"
  ELSE "Ok"

set_platform_fee_bp(fee_bp, authorized) ==
  IF set_platform_fee_bp_result(fee_bp, authorized) = "Ok"
  THEN /\ platform_fee_bp' = fee_bp
       /\ UNCHANGED <<escrows, milestones, escrowed, fees, next_escrow_id, user_escrows,
                      reputation, completed, paused, whitelisted, ledger, balances, owner>>
  ELSE UNCHANGED vars

\* pause_job_creation (flag = TRUE) and unpause_job_creation (flag = FALSE)
set_job_creation_paused(flag, authorized) ==
  IF require_owner(authorized) = "Ok"
  THEN /\ paused' = flag
       /\ UNCHANGED <<escrows, milestones, escrowed, fees, next_escrow_id, user_escrows,
                      reputation, completed, platform_fee_bp, whitelisted, ledger,
                      balances, owner>>
  ELSE UNCHANGED vars

\* lib.rs whitelist_token
whitelist_token(token, authorized) ==
  IF require_owner(authorized) = "Ok"
  THEN /\ whitelisted' = whitelisted \cup {token}
       /\ UNCHANGED <<escrows, milestones, escrowed, fees, next_escrow_id, user_escrows,
                      reputation, completed, platform_fee_bp, paused, ledger, balances,
                      owner>>
  ELSE UNCHANGED vars

\* ------------------------------------------------------------ the ledger
\* The ledger sequence only grows.  Every comparison the contract makes is
\* of the sequence with a deadline or with deadline + EMERGENCY_REFUND_DELAY,
\* so the ledger is advanced to the values at which one of them changes.
LedgerTargets ==
  UNION { { escrows[i].deadline,
            escrows[i].deadline + EMERGENCY_REFUND_DELAY,
            escrows[i].deadline + EMERGENCY_REFUND_DELAY + 1 } : i \in DOMAIN escrows }

advance_ledger(sequence) ==
  /\ sequence > ledger
  /\ ledger' = sequence
  /\ UNCHANGED <<escrows, milestones, escrowed, fees, next_escrow_id, user_escrows,
                 reputation, completed, admin_vars, balances>>

\* ------------------------------------------------------------------ Next
MaxMilestoneIndex == 2      \* milestone_index inputs: 0 and 1 exist, 2 does not
EscrowIdInputs == 0 .. MaxEscrows
MilestoneIndexInputs == 0 .. MaxMilestoneIndex

\* The bounds of the model are guards of the steps: of the number of escrows,
\* of the deadlines and of the overdraft of the escrowed counters.
Create ==
  /\ next_escrow_id <= MaxEscrows
  /\ \A duration \in Durations : ledger + (duration \div LEDGER_SECONDS) <= MaxDeadline
  /\ \E depositor \in Depositors, authorized \in BOOLEAN,
     beneficiary \in Freelancers \cup {None},
     arbiters \in ArbiterCounts, required_confirmations \in Confirmations,
     milestone_amounts \in MilestoneLists,
     token \in Tokens \cup {None}, total_amount \in TotalAmounts,
     duration \in Durations, token_ok \in BOOLEAN :
    create_escrow(depositor, authorized, beneficiary, arbiters, required_confirmations,
                  milestone_amounts, Len(milestone_amounts), token, total_amount,
                  duration, token_ok)
  /\ UNCHANGED step_vars

StartWork ==
  /\ \E escrow_id \in EscrowIdInputs, caller \in Accounts, authorized \in BOOLEAN :
       start_work(escrow_id, caller, authorized)
  /\ UNCHANGED step_vars

SubmitMilestone ==
  /\ \E escrow_id \in EscrowIdInputs, milestone_index \in MilestoneIndexInputs,
        caller \in Accounts, authorized \in BOOLEAN :
       submit_milestone(escrow_id, milestone_index, caller, authorized)
  /\ UNCHANGED step_vars

ResubmitMilestone ==
  /\ \E escrow_id \in EscrowIdInputs, milestone_index \in MilestoneIndexInputs,
        caller \in Accounts, authorized \in BOOLEAN :
       resubmit_milestone(escrow_id, milestone_index, caller, authorized)
  /\ UNCHANGED step_vars

ApproveMilestone ==
  /\ \E escrow_id \in EscrowIdInputs, milestone_index \in MilestoneIndexInputs,
        caller \in Accounts, authorized \in BOOLEAN, token_ok \in BOOLEAN :
       approve_milestone(escrow_id, milestone_index, caller, authorized, token_ok)
  /\ UNCHANGED step_vars

RejectMilestone ==
  /\ \E escrow_id \in EscrowIdInputs, milestone_index \in MilestoneIndexInputs,
        caller \in Accounts, authorized \in BOOLEAN :
       reject_milestone(escrow_id, milestone_index, caller, authorized)
  /\ UNCHANGED step_vars

DisputeMilestone ==
  /\ \E escrow_id \in EscrowIdInputs, milestone_index \in MilestoneIndexInputs,
        caller \in Accounts, authorized \in BOOLEAN :
       dispute_milestone(escrow_id, milestone_index, caller, authorized)
  /\ UNCHANGED step_vars

RefundEscrow ==
  /\ \E escrow_id \in EscrowIdInputs, caller \in Accounts, authorized \in BOOLEAN,
        token_ok \in BOOLEAN :
       refund_escrow(escrow_id, caller, authorized, token_ok)
  /\ UNCHANGED step_vars

EmergencyRefund ==
  /\ \A k \in TokenKeys : escrowed[k] >= 0
  /\ \E escrow_id \in EscrowIdInputs, caller \in Accounts, authorized \in BOOLEAN,
     token_ok \in BOOLEAN :
    emergency_refund_after_deadline(escrow_id, caller, authorized, token_ok)
  /\ UNCHANGED step_vars

ExtendDeadline ==
  /\ \E escrow_id \in EscrowIdInputs, caller \in Accounts, authorized \in BOOLEAN,
        extra_seconds \in ExtraSeconds :
       /\ extend_deadline_result(escrow_id, caller, authorized, extra_seconds) = "Ok" =>
            escrows[escrow_id].deadline + extra_seconds <= MaxDeadline + MAX_EXTENSION
       /\ extend_deadline(escrow_id, caller, authorized, extra_seconds)
  /\ UNCHANGED step_vars

AcceptFreelancer ==
  /\ \E escrow_id \in EscrowIdInputs, caller \in Accounts, authorized \in BOOLEAN,
        freelancer \in Freelancers :
       accept_freelancer(escrow_id, caller, authorized, freelancer)
  /\ UNCHANGED step_vars

AdvanceLedger ==
  /\ \E sequence \in LedgerTargets : advance_ledger(sequence)
  /\ UNCHANGED step_vars

SetPlatformFeeBp ==
  /\ \E fee_bp \in FeeInputs, authorized \in BOOLEAN :
       set_platform_fee_bp(fee_bp, authorized)
  /\ UNCHANGED step_vars

Next ==
  \/ Create
  \/ StartWork
  \/ SubmitMilestone
  \/ ResubmitMilestone
  \/ ApproveMilestone
  \/ RejectMilestone
  \/ DisputeMilestone
  \/ RefundEscrow
  \/ EmergencyRefund
  \/ ExtendDeadline
  \/ AcceptFreelancer
  \/ AdvanceLedger
  \/ SetPlatformFeeBp

Spec == Init /\ [][Next]_all_vars

\* ------------------------------------------- administration and create
\* The contract from its deployment: the instance storage is empty, every
\* read falls back to its default (unwrap_or), initialize has not been
\* called.  Administration and creation with every kind of argument; the
\* escrows are created on the initialized contract.
InitDeployed ==
  /\ escrows = <<>>
  /\ milestones = <<>>
  /\ escrowed = [k \in TokenKeys |-> 0]
  /\ fees = [k \in TokenKeys |-> 0]
  /\ next_escrow_id = 1
  /\ user_escrows = [a \in Accounts |-> <<>>]
  /\ reputation = [a \in Accounts |-> 0]
  /\ completed = [a \in Accounts |-> 0]
  /\ platform_fee_bp = 0
  /\ paused = FALSE
  /\ whitelisted = {}
  /\ ledger = 0
  /\ balances = [k \in TokenKeys |-> [h \in Holders |-> 0]]
  /\ owner = None
  /\ pc = 0
  /\ call = NoCall
  /\ saved = <<>>
  /\ trapped = FALSE

Initialize ==
  /\ \E new_owner \in {OwnerAccount}, fee_bp \in FeeInputs, authorized \in BOOLEAN :
       initialize(new_owner, fee_bp, authorized)
  /\ UNCHANGED step_vars

SetJobCreationPaused ==
  /\ \E flag \in BOOLEAN, authorized \in BOOLEAN : set_job_creation_paused(flag, authorized)
  /\ UNCHANGED step_vars

WhitelistToken ==
  /\ \E token \in AllTokens, authorized \in BOOLEAN : whitelist_token(token, authorized)
  /\ UNCHANGED step_vars

CreateAny ==
  /\ next_escrow_id <= MaxEscrows
  /\ owner # None
  /\ \E depositor \in Depositors, authorized \in BOOLEAN,
        beneficiary \in Freelancers \cup {None},
        arbiters \in CreateArbiterCounts, required_confirmations \in CreateConfirmations,
        milestone_amounts \in CreateMilestoneLists, skew \in DescriptionSkews,
        token \in AllTokens \cup {None}, total_amount \in CreateTotalAmounts,
        duration \in CreateDurations, token_ok \in BOOLEAN :
       create_escrow(depositor, authorized, beneficiary, arbiters, required_confirmations,
                     milestone_amounts, Len(milestone_amounts) + skew, token, total_amount,
                     duration, token_ok)
  /\ UNCHANGED step_vars

AdvanceLedgerStart ==
  /\ \E sequence \in LedgerStarts : advance_ledger(sequence)
  /\ UNCHANGED step_vars

NextAdmin ==
  \/ Initialize
  \/ SetPlatformFeeBp
  \/ SetJobCreationPaused
  \/ WhitelistToken
  \/ CreateAny
  \/ AdvanceLedgerStart

SpecAdmin == InitDeployed /\ [][NextAdmin]_all_vars

\* ------------------------------------------ the two parties of an escrow
\* create_escrow compares depositor and beneficiary nowhere: one account can
\* be both.  The payments of an escrow above and of one below the eligibility
\* floor, whose milestones add up to its total.
PartyBeneficiaries == Depositors \cup Freelancers
PartyFundings == {<<20, <<10, 10>>>>, <<15, <<5, 10>>>>}

CreateParties ==
  /\ next_escrow_id <= MaxEscrows
  /\ \E depositor \in Depositors, beneficiary \in PartyBeneficiaries,
        funding \in PartyFundings, token \in Tokens \cup {None}, token_ok \in BOOLEAN :
       create_escrow(depositor, TRUE, beneficiary, 0, 0, funding[2], Len(funding[2]),
                     token, funding[1], 3600, token_ok)
  /\ UNCHANGED step_vars

NextParties ==
  \/ CreateParties
  \/ StartWork
  \/ SubmitMilestone
  \/ ApproveMilestone
  \/ SetPlatformFeeBp

SpecParties == Init /\ [][NextParties]_all_vars

\* ------------------------------------------------ several escrows, ids
\* The contract from its deployment with several escrows.  create_escrow reads
\* no Owner key: it is accepted before initialize is called, with the
\* defaults of the absent keys (id counter 1, fee rate 0, not paused, the
\* native asset whitelisted).
MaxIds == 3                 \* create_escrow is called while the id counter is at most this
IdInputs == 0 .. (MaxIds + 1)
IndexDepositors == {"alice", "carol"}

CreateNext ==
  /\ next_escrow_id <= MaxIds
  /\ \E depositor \in IndexDepositors, authorized \in BOOLEAN,
        beneficiary \in Freelancers \cup {None}, token_ok \in BOOLEAN :
       create_escrow(depositor, authorized, beneficiary, 0, 0, <<10, 10>>, 2, None, 20,
                     3600, token_ok)
  /\ UNCHANGED step_vars

AcceptAny ==
  /\ \E escrow_id \in IdInputs, caller \in Accounts, authorized \in BOOLEAN,
        freelancer \in Freelancers :
       accept_freelancer(escrow_id, caller, authorized, freelancer)
  /\ UNCHANGED step_vars

NextIds ==
  \/ Initialize
  \/ CreateNext
  \/ AcceptAny

SpecIds == InitDeployed /\ [][NextIds]_all_vars

\* several escrows of the contract that was initialized before its first create
NextEscrows ==
  \/ CreateNext
  \/ AcceptAny

SpecEscrows == Init /\ [][NextEscrows]_all_vars

\* ------------------------------------- calls, instruction by instruction
\* The four operations that move funds, executed one storage write or token
\* transfer at a time, in the order of the source.  The instructions are
\* named by the DataKey they write; "transfer" is token::Client::transfer.
\* The checks of an operation read the storage and write nothing: a call
\* whose checks fail ends before its first instruction.  A call runs alone
\* (a transaction), and a trap ends it with the storage as it was at its
\* start.
snapshot ==
  [ escrows |-> escrows, milestones |-> milestones, escrowed |-> escrowed, fees |-> fees,
    next_escrow_id |-> next_escrow_id, user_escrows |-> user_escrows,
    reputation |-> reputation, completed |-> completed, balances |-> balances ]

\* a variant of the end of a trapped call that keeps the writes made so far
keep_writes(s) == UNCHANGED vars

\* the end of a call that traps: the host discards every write of the call
rollback(s) ==
  /\ escrows' = s.escrows
  /\ milestones' = s.milestones
  /\ escrowed' = s.escrowed
  /\ fees' = s.fees
  /\ next_escrow_id' = s.next_escrow_id
  /\ user_escrows' = s.user_escrows
  /\ reputation' = s.reputation
  /\ completed' = s.completed
  /\ balances' = s.balances
  /\ UNCHANGED <<admin_vars, ledger>>

\* one instruction: the storage entry (or the token balances) of key becomes value
write(key, value) ==
  /\ next_escrow_id' = IF key = "NextEscrowId" THEN value ELSE next_escrow_id
  /\ balances' = IF key = "transfer" THEN value ELSE balances
  /\ escrowed' = IF key = "EscrowedAmount" THEN value ELSE escrowed
  /\ escrows' = IF key = "Escrow" THEN value ELSE escrows
  /\ milestones' = IF key = "Milestone" THEN value ELSE milestones
  /\ user_escrows' = IF key = "UserEscrows" THEN value ELSE user_escrows
  /\ reputation' = IF key = "Reputation" THEN value ELSE reputation
  /\ completed' = IF key = "CompletedEscrows" THEN value ELSE completed
  /\ UNCHANGED <<fees, admin_vars, ledger>>

\* a variant of create_escrow's instructions that transfers before the id counter
\* is written
create_escrow_program_transfer_first ==
  <<"transfer", "NextEscrowId", "EscrowedAmount", "Escrow", "Milestone", "UserEscrows">>

\* create_escrow after its checks
create_escrow_program ==
  <<"NextEscrowId", "transfer", "EscrowedAmount", "Escrow", "Milestone", "UserEscrows">>

create_escrow_write(c, instr) ==
  LET escrow_id == saved.next_escrow_id
      key == token_key(c.token)
      index == add_user_escrow(user_escrows, c.depositor, escrow_id)
  IN
  CASE instr = "NextEscrowId" -> next_escrow_id + 1
    [] instr = "transfer" -> transfer(key, c.depositor, ContractAddress, c.total_amount)
    [] instr = "EscrowedAmount" -> [escrowed EXCEPT ![key] = @ + c.total_amount]
    [] instr = "Escrow" ->
         store(escrows, escrow_id,
               new_escrow(c.depositor, c.beneficiary, c.arbiters, c.required_confirmations,
                          c.token, c.total_amount, Len(c.milestone_amounts), c.duration))
    [] instr = "Milestone" ->
         store(milestones, escrow_id, new_milestones(c.milestone_amounts))
    [] instr = "UserEscrows" ->
         IF c.beneficiary # None
         THEN add_user_escrow(index, c.beneficiary, escrow_id)
         ELSE index

\* approve_milestone after its checks, for the escrow and the milestone amount read
\* by the checks: the reputation and completed-escrow writes are conditional
approve_milestone_program(escrow, amount) ==
  LET eligible == escrow.total_amount >= MIN_REP_ELIGIBLE_ESCROW_VALUE
      complete == paid_after(escrow.paid_amount, amount) = escrow.total_amount
  IN <<"EscrowedAmount", "transfer">>
     \o (IF eligible THEN <<"Reputation">> ELSE <<>>)
     \o (IF eligible /\ complete THEN <<"CompletedEscrows">> ELSE <<>>)
     \o <<"Milestone", "Escrow">>

approve_milestone_write(c, instr) ==
  LET escrow == saved.escrows[c.escrow_id]
      amount == saved.milestones[c.escrow_id][c.milestone_index].amount
      key == token_key(escrow.token)
      paid == paid_after(escrow.paid_amount, amount)
  IN
  CASE instr = "EscrowedAmount" -> [escrowed EXCEPT ![key] = @ - amount]
    [] instr = "transfer" -> transfer(key, ContractAddress, escrow.beneficiary, amount)
    [] instr = "Reputation" -> reputation_after(escrow, paid)
    [] instr = "CompletedEscrows" -> completed_after(escrow, paid)
    [] instr = "Milestone" ->
         [milestones EXCEPT ![c.escrow_id][c.milestone_index].status = "Approved"]
    [] instr = "Escrow" ->
         [escrows EXCEPT ![c.escrow_id].paid_amount = paid,
                         ![c.escrow_id].status =
                           IF paid = escrow.total_amount THEN "Released" ELSE @]

\* refund_escrow after its checks
refund_escrow_program ==
  <<"EscrowedAmount", "transfer", "Escrow">>

refund_escrow_write(c, instr) ==
  LET escrow == saved.escrows[c.escrow_id]
      refund_amount == escrow.total_amount - escrow.paid_amount
      key == token_key(escrow.token)
  IN
  CASE instr = "EscrowedAmount" -> [escrowed EXCEPT ![key] = @ - refund_amount]
    [] instr = "transfer" -> transfer(key, ContractAddress, c.depositor, refund_amount)
    [] instr = "Escrow" -> [escrows EXCEPT ![c.escrow_id].status = "Refunded"]

\* emergency_refund_after_deadline after its checks: the branch of the native
\* asset makes no transfer
emergency_refund_program(token) ==
  <<"EscrowedAmount">> \o (IF token # None THEN <<"transfer">> ELSE <<>>) \o <<"Escrow">>

emergency_refund_write(c, instr) ==
  LET escrow == saved.escrows[c.escrow_id]
      refund_amount == escrow.total_amount - escrow.paid_amount
      key == token_key(escrow.token)
  IN
  CASE instr = "EscrowedAmount" -> [escrowed EXCEPT ![key] = @ - refund_amount]
    [] instr = "transfer" -> transfer(key, ContractAddress, c.depositor, refund_amount)
    [] instr = "Escrow" -> [escrows EXCEPT ![c.escrow_id].status = "Expired"]

\* the instructions of call c
program(c) ==
  CASE c.op = "create_escrow" -> create_escrow_program
    [] c.op = "approve_milestone" ->
         approve_milestone_program(saved.escrows[c.escrow_id],
                                   saved.milestones[c.escrow_id][c.milestone_index].amount)
    [] c.op = "refund_escrow" -> refund_escrow_program
    [] c.op = "emergency_refund_after_deadline" ->
         emergency_refund_program(saved.escrows[c.escrow_id].token)

\* the value instruction instr of call c writes
call_write(c, instr) ==
  CASE c.op = "create_escrow" -> create_escrow_write(c, instr)
    [] c.op = "approve_milestone" -> approve_milestone_write(c, instr)
    [] c.op = "refund_escrow" -> refund_escrow_write(c, instr)
    [] c.op = "emergency_refund_after_deadline" -> emergency_refund_write(c, instr)

\* the amount call c transfers
transfer_amount(c) ==
  CASE c.op = "create_escrow" -> c.total_amount
    [] c.op = "approve_milestone" ->
         saved.milestones[c.escrow_id][c.milestone_index].amount
    [] OTHER -> saved.escrows[c.escrow_id].total_amount
                - saved.escrows[c.escrow_id].paid_amount

\* the instructions call c has executed
journal == IF call = NoCall THEN <<>> ELSE SubSeq(program(call), 1, pc)

\* a call starts: its checks have passed and nothing is written yet
begin_call(c) ==
  /\ call = NoCall
  /\ call' = c
  /\ saved' = snapshot
  /\ pc' = 0
  /\ trapped' = FALSE
  /\ UNCHANGED vars

BeginCreate ==
  /\ call = NoCall
  /\ next_escrow_id <= MaxEscrows
  /\ \A duration \in Durations : ledger + (duration \div LEDGER_SECONDS) <= MaxDeadline
  /\ \E depositor \in Depositors, authorized \in BOOLEAN,
        beneficiary \in Freelancers \cup {None},
        arbiters \in ArbiterCounts, required_confirmations \in Confirmations,
        milestone_amounts \in MilestoneLists,
        token \in Tokens \cup {None}, total_amount \in TotalAmounts,
        duration \in Durations :
       IF create_escrow_result(authorized, arbiters, required_confirmations,
                               milestone_amounts, Len(milestone_amounts), token,
                               duration) = "Ok"
       THEN begin_call([op |-> "create_escrow", depositor |-> depositor,
                        beneficiary |-> beneficiary, arbiters |-> arbiters,
                        required_confirmations |-> required_confirmations,
                        milestone_amounts |-> milestone_amounts, token |-> token,
                        total_amount |-> total_amount, duration |-> duration])
       ELSE UNCHANGED all_vars

BeginApprove ==
  /\ call = NoCall
  /\ \E escrow_id \in EscrowIdInputs, milestone_index \in MilestoneIndexInputs,
        caller \in Accounts, authorized \in BOOLEAN :
       IF /\ approve_milestone_result(escrow_id, milestone_index, caller, authorized) = "Ok"
          /\ escrows[escrow_id].beneficiary # None
       THEN begin_call([op |-> "approve_milestone", escrow_id |-> escrow_id,
                        milestone_index |-> milestone_index, depositor |-> caller])
       ELSE UNCHANGED all_vars

BeginRefund ==
  /\ call = NoCall
  /\ \E escrow_id \in EscrowIdInputs, caller \in Accounts, authorized \in BOOLEAN :
       IF refund_escrow_result(escrow_id, caller, authorized) = "Ok"
       THEN begin_call([op |-> "refund_escrow", escrow_id |-> escrow_id,
                        depositor |-> caller])
       ELSE UNCHANGED all_vars

BeginEmergencyRefund ==
  /\ call = NoCall
  /\ \A k \in TokenKeys : escrowed[k] >= 0
  /\ \E escrow_id \in EscrowIdInputs, caller \in Accounts, authorized \in BOOLEAN :
       IF emergency_refund_after_deadline_result(escrow_id, caller, authorized) = "Ok"
       THEN begin_call([op |-> "emergency_refund_after_deadline",
                        escrow_id |-> escrow_id, depositor |-> caller])
       ELSE UNCHANGED all_vars

\* the next instruction of the call in progress is executed
ExecuteInstruction ==
  /\ call # NoCall
  /\ pc < Len(program(call))
  /\ LET instr == program(call)[pc + 1] IN
     /\ instr = "transfer" => transfer_ok(transfer_amount(call), TRUE)
     /\ write(instr, call_write(call, instr))
  /\ pc' = pc + 1
  /\ UNCHANGED <<call, saved, trapped>>

\* the transfer of the call in progress fails: the token contract traps
TransferTrap ==
  /\ call # NoCall
  /\ pc < Len(program(call))
  /\ program(call)[pc + 1] = "transfer"
  /\ rollback(saved)
  /\ pc' = 0
  /\ call' = NoCall
  /\ saved' = <<>>
  /\ trapped' = TRUE

\* the call in progress has executed its last instruction and returns Ok
ReturnOk ==
  /\ call # NoCall
  /\ pc = Len(program(call))
  /\ pc' = 0
  /\ call' = NoCall
  /\ saved' = <<>>
  /\ UNCHANGED <<vars, trapped>>

\* the operations that write only after their last check, as single steps
AtomicCall ==
  /\ call = NoCall
  /\ \/ StartWork
     \/ SubmitMilestone
     \/ ResubmitMilestone
     \/ RejectMilestone
     \/ DisputeMilestone
     \/ ExtendDeadline
     \/ AcceptFreelancer
     \/ AdvanceLedger

NextSteps ==
  \/ AtomicCall
  \/ BeginCreate
  \/ BeginApprove
  \/ BeginRefund
  \/ BeginEmergencyRefund
  \/ ExecuteInstruction
  \/ TransferTrap
  \/ ReturnOk

SpecSteps == Init /\ [][NextSteps]_all_vars


\* ---------------------------------------------------------------- claims
NonTerminal == {"Pending", "InProgress", "Disputed"}

RECURSIVE SumLocked(_, _)
\* the sum of total_amount - paid_amount over the escrows of ids whose token key is key
\* and whose status is Pending, InProgress or Disputed
SumLocked(ids, key) ==
  IF ids = {} THEN 0
  ELSE LET i == CHOOSE x \in ids : TRUE
           e == escrows[i]
           term == IF token_key(e.token) = key /\ e.status \in NonTerminal
                   THEN e.total_amount - e.paid_amount
                   ELSE 0
       IN term + SumLocked(ids \ {i}, key)

\* C1: in every reachable state, every escrow has 0 <= paid_amount <= total_amount
C1_PaidWithinTotal ==
  \A i \in DOMAIN escrows :
    /\ 0 <= escrows[i].paid_amount
    /\ escrows[i].paid_amount <= escrows[i].total_amount

\* C2: in every reachable state, the escrowed counter of every asset equals the sum of
\* total_amount - paid_amount over the Pending, InProgress and Disputed escrows of the asset
C2_EscrowedIsSumLocked ==
  \A k \in TokenKeys : escrowed[k] = SumLocked(DOMAIN escrows, k)

\* C3: paid_amount never decreases; it changes only in a successful approve_milestone,
\* by exactly the amount the approved milestone was created with, and in that step the
\* escrowed counter of the escrow's asset decreases by the same amount; milestone
\* amounts never change
C3_PaidOnlyByApprove ==
  [][ \A i \in DOMAIN escrows :
        /\ \A m \in DOMAIN milestones[i] :
             milestones'[i][m].amount = milestones[i][m].amount
        /\ escrows'[i].paid_amount >= escrows[i].paid_amount
        /\ escrows'[i].paid_amount # escrows[i].paid_amount =>
             \E m \in DOMAIN milestones[i], token_ok \in BOOLEAN :
               /\ approve_milestone(i, m, escrows[i].depositor, TRUE, token_ok)
               /\ milestones[i][m].status = "Submitted"
               /\ milestones'[i][m].status = "Approved"
               /\ escrows'[i].paid_amount =
                    escrows[i].paid_amount + milestones[i][m].amount
               /\ escrowed'[token_key(escrows[i].token)] =
                    escrowed[token_key(escrows[i].token)] - milestones[i][m].amount
               /\ \A k \in TokenKeys \ {token_key(escrows[i].token)} :
                    escrowed'[k] = escrowed[k]
        /\ \A m \in DOMAIN milestones[i] :
             (milestones[i][m].status # "Approved" /\ milestones'[i][m].status = "Approved") =>
               /\ escrows'[i].paid_amount =
                    escrows[i].paid_amount + milestones[i][m].amount
               /\ escrowed'[token_key(escrows[i].token)] =
                    escrowed[token_key(escrows[i].token)] - milestones[i][m].amount
    ]_vars

\* C3 witness: an escrow has been paid two milestones of 10, one after the other
C3_Witness ==
  \E i \in DOMAIN escrows :
    /\ escrows[i].paid_amount = 20
    /\ \A m \in DOMAIN milestones[i] :
         milestones[i][m].status = "Approved" /\ milestones[i][m].amount = 10

\* C4: once every milestone of an escrow has been approved, paid_amount = total_amount
\* and the status is Released
C4_AllApprovedReleased ==
  \A i \in DOMAIN escrows :
    (\A m \in DOMAIN milestones[i] : milestones[i][m].status = "Approved") =>
      /\ escrows[i].paid_amount = escrows[i].total_amount
      /\ escrows[i].status = "Released"


\* C5 as claimed: approve_milestone by the depositor on a Released escrow, or on a
\* milestone that is already Approved, returns MilestoneNotSubmitted
C5_ApproveAgainNotSubmitted ==
  \A i \in DOMAIN escrows : \A m \in DOMAIN milestones[i] :
    (escrows[i].status = "Released" \/ milestones[i][m].status = "Approved") =>
      approve_milestone_result(i, m, escrows[i].depositor, TRUE) = "MilestoneNotSubmitted"

\* C5 amended: approve_milestone by the depositor on a Released escrow, or on a milestone
\* that is already Approved, returns EscrowNotActive when the escrow is not InProgress
\* (as every Released escrow is) and MilestoneNotSubmitted when it is InProgress, and
\* changes nothing
C5_ApproveAgainFails ==
  /\ [](\A i \in DOMAIN escrows : \A m \in DOMAIN milestones[i] :
          (escrows[i].status = "Released" \/ milestones[i][m].status = "Approved") =>
            approve_milestone_result(i, m, escrows[i].depositor, TRUE) =
              IF escrows[i].status = "InProgress"
              THEN "MilestoneNotSubmitted" ELSE "EscrowNotActive")
  /\ [][ \A i \in DOMAIN escrows : \A m \in DOMAIN milestones[i] :
           \A token_ok \in BOOLEAN :
             ( /\ escrows[i].status = "Released" \/ milestones[i][m].status = "Approved"
               /\ approve_milestone(i, m, escrows[i].depositor, TRUE, token_ok) )
             => UNCHANGED vars
       ]_vars

\* C5 witness: a Released escrow, all of whose milestones are Approved
C5_Witness ==
  \E i \in DOMAIN escrows :
    /\ escrows[i].status = "Released"
    /\ \A m \in DOMAIN milestones[i] : milestones[i][m].status = "Approved"

ClaimedEscrowEdges ==
  { <<"Pending", "InProgress">>, <<"InProgress", "Released">>, <<"Pending", "Refunded">>,
    <<"Pending", "Expired">>, <<"InProgress", "Expired">>, <<"InProgress", "Disputed">> }

\* every change of an escrow's status is an edge of edges, and Expired is entered only
\* by a successful emergency_refund_after_deadline of the depositor
EscrowEdgesWithin(edges) ==
  \A i \in DOMAIN escrows :
    escrows'[i].status # escrows[i].status =>
      /\ <<escrows[i].status, escrows'[i].status>> \in edges
      /\ escrows'[i].status = "Expired" =>
           \E token_ok \in BOOLEAN :
             emergency_refund_after_deadline(i, escrows[i].depositor, TRUE, token_ok)

\* C6 as claimed: every change of an escrow's status is one of Pending->InProgress,
\* InProgress->Released, Pending->Refunded, Pending->Expired, InProgress->Expired,
\* InProgress->Disputed, and Expired is entered only by emergency_refund_after_deadline
C6_EscrowEdgesClaimed == [][EscrowEdgesWithin(ClaimedEscrowEdges)]_vars

\* C6 amended: every change of an escrow's status is one of the claimed edges or
\* Disputed->Expired, and Expired is entered only by emergency_refund_after_deadline
C6_EscrowEdges ==
  [][EscrowEdgesWithin(ClaimedEscrowEdges \cup {<<"Disputed", "Expired">>})]_vars

\* C6 witness: an escrow that was Disputed has been Expired by the emergency refund
C6_Witness ==
  \E i \in DOMAIN escrows :
    /\ escrows[i].status = "Expired"
    /\ \E m \in DOMAIN milestones[i] : milestones[i][m].status = "Disputed"

\* C7 as claimed: once an escrow is Released, Refunded, Expired or Disputed its status
\* never changes
C7_TerminalClaimed ==
  [][ \A i \in DOMAIN escrows :
        escrows[i].status \in {"Released", "Refunded", "Expired", "Disputed"} =>
          escrows'[i].status = escrows[i].status ]_vars

\* C7 amended: once an escrow is Released, Refunded or Expired its status never changes,
\* and a Disputed escrow changes status only to Expired
C7_Terminal ==
  [][ \A i \in DOMAIN escrows :
        /\ escrows[i].status \in {"Released", "Refunded", "Expired"} =>
             escrows'[i].status = escrows[i].status
        /\ escrows[i].status = "Disputed" =>
             escrows'[i].status \in {"Disputed", "Expired"} ]_vars

\* C7 witness: the ledger is past the emergency period of a Released escrow
C7_Witness ==
  \E i \in DOMAIN escrows :
    /\ escrows[i].status = "Released"
    /\ ledger > escrows[i].deadline + EMERGENCY_REFUND_DELAY

MilestoneEdges ==
  { <<"NotStarted", "Submitted">>, <<"Submitted", "Approved">>, <<"Submitted", "Rejected">>,
    <<"Rejected", "Submitted">>, <<"Submitted", "Disputed">>, <<"Approved", "Disputed">> }

\* C8: every change of a milestone's status is one of NotStarted->Submitted,
\* Submitted->Approved, Submitted->Rejected, Rejected->Submitted, Submitted->Disputed,
\* Approved->Disputed; a Disputed milestone never changes; no milestone is ever Resolved
C8_MilestoneEdges ==
  /\ [](\A i \in DOMAIN milestones : \A m \in DOMAIN milestones[i] :
          milestones[i][m].status # "Resolved")
  /\ [][ \A i \in DOMAIN milestones : \A m \in DOMAIN milestones[i] :
           milestones'[i][m].status # milestones[i][m].status =>
             <<milestones[i][m].status, milestones'[i][m].status>> \in MilestoneEdges
       ]_vars

\* C8 witness: a milestone that was approved and paid has been disputed, next to a
\* milestone that was rejected
C8_Witness ==
  \E i \in DOMAIN escrows : \E m, n \in DOMAIN milestones[i] :
    /\ milestones[i][m].status = "Disputed"
    /\ escrows[i].paid_amount = milestones[i][m].amount
    /\ milestones[i][n].status = "Rejected"

\* C9 as claimed: after start_work, refund_escrow by the depositor returns
\* WorkAlreadyStarted
C9_RefundAfterStartClaimed ==
  \A i \in DOMAIN escrows :
    escrows[i].work_started =>
      refund_escrow_result(i, escrows[i].depositor, TRUE) = "WorkAlreadyStarted"

\* C9 amended: after start_work, refund_escrow by the depositor returns
\* InvalidEscrowStatus
C9_RefundAfterStart ==
  \A i \in DOMAIN escrows :
    escrows[i].work_started =>
      refund_escrow_result(i, escrows[i].depositor, TRUE) = "InvalidEscrowStatus"

\* C9 witness: work has started on an escrow whose deadline has not been reached
C9_Witness ==
  \E i \in DOMAIN escrows :
    escrows[i].work_started /\ ledger < escrows[i].deadline

\* C10: an escrow becomes Refunded only by refund_escrow of its depositor, from Pending
\* with work_started false, the ledger sequence below the deadline and
\* total_amount - paid_amount > 0; the step decreases the escrowed counter of the asset
\* by total_amount - paid_amount and moves that amount from the contract to the
\* depositor; and a refund_escrow call made when one of the conditions fails changes
\* nothing
C10_Refund ==
  [][ \A i \in DOMAIN escrows :
        LET e == escrows[i]
            k == token_key(e.token)
            refund_amount == e.total_amount - e.paid_amount
        IN
        /\ (escrows'[i].status = "Refunded" /\ e.status # "Refunded") =>
             /\ \E token_ok \in BOOLEAN : refund_escrow(i, e.depositor, TRUE, token_ok)
             /\ e.status = "Pending"
             /\ ~e.work_started
             /\ ledger < e.deadline
             /\ refund_amount > 0
             /\ escrowed'[k] = escrowed[k] - refund_amount
             /\ balances'[k][ContractAddress] = balances[k][ContractAddress] - refund_amount
             /\ balances'[k][e.depositor] = balances[k][e.depositor] + refund_amount
        /\ \/ UNCHANGED vars
           \/ \A caller \in Accounts, authorized \in BOOLEAN, token_ok \in BOOLEAN :
                ~( /\ ~( /\ caller = e.depositor
                         /\ e.status = "Pending"
                         /\ ~e.work_started
                         /\ ledger < e.deadline
                         /\ refund_amount > 0 )
                   /\ refund_escrow(i, caller, authorized, token_ok) )
    ]_vars

\* C10 witness: an escrow has been refunded
C10_Witness ==
  \E i \in DOMAIN escrows :
    /\ escrows[i].status = "Refunded"
    /\ balances[token_key(escrows[i].token)][escrows[i].depositor] = 0

\* some operation that writes only after its last check succeeds in this step
ValidAtomicCall ==
  \/ \E i \in EscrowIdInputs, a \in Accounts :
       \/ start_work_result(i, a, TRUE) = "Ok" /\ start_work(i, a, TRUE)
       \/ \E f \in Freelancers :
            accept_freelancer_result(i, a, TRUE) = "Ok" /\ accept_freelancer(i, a, TRUE, f)
       \/ \E x \in ExtraSeconds :
            extend_deadline_result(i, a, TRUE, x) = "Ok" /\ extend_deadline(i, a, TRUE, x)
       \/ \E m \in MilestoneIndexInputs :
            \/ submit_milestone_result(i, m, a, TRUE) = "Ok" /\ submit_milestone(i, m, a, TRUE)
            \/ resubmit_milestone_result(i, m, a, TRUE) = "Ok"
                 /\ resubmit_milestone(i, m, a, TRUE)
            \/ reject_milestone_result(i, m, a, TRUE) = "Ok" /\ reject_milestone(i, m, a, TRUE)
            \/ dispute_milestone_result(i, m, a, TRUE) = "Ok"
                 /\ dispute_milestone(i, m, a, TRUE)

\* C11: every operation is all-or-nothing.  A call that ends because its transfer
\* failed leaves the escrow records, the milestones, the escrowed and fee counters, the
\* next-escrow-id counter and the reverse index (and the reputation, the completed
\* counters and the balances) as they were when the call started; the checks of a call
\* write nothing; and outside a call the storage changes only by an operation all of
\* whose checks pass
C11_AllOrNothing ==
  [][ /\ (call # NoCall /\ trapped') =>
           /\ escrows' = saved.escrows
           /\ milestones' = saved.milestones
           /\ escrowed' = saved.escrowed
           /\ fees' = saved.fees
           /\ next_escrow_id' = saved.next_escrow_id
           /\ user_escrows' = saved.user_escrows
           /\ reputation' = saved.reputation
           /\ completed' = saved.completed
           /\ balances' = saved.balances
      /\ (call = NoCall /\ call' # NoCall) => UNCHANGED vars
      /\ (call = NoCall /\ call' = NoCall) =>
           \/ UNCHANGED <<escrows, milestones, escrowed, fees, next_escrow_id, user_escrows,
                          reputation, completed, balances>>
           \/ ValidAtomicCall
    ]_all_vars

\* C11 witness: the last fund-moving call trapped at its transfer, after a write, and an
\* escrow in progress with a Submitted milestone has its whole remainder in the counter
C11_Witness ==
  /\ trapped
  /\ \E i \in DOMAIN escrows :
       /\ escrows[i].status = "InProgress"
       /\ \E m \in DOMAIN milestones[i] : milestones[i][m].status = "Submitted"
       /\ escrowed[token_key(escrows[i].token)] =
            escrows[i].total_amount - escrows[i].paid_amount

RecordWrites == {"Escrow", "Milestone", "UserEscrows"}
StoreWrites ==
  RecordWrites \cup {"NextEscrowId", "EscrowedAmount", "Reputation", "CompletedEscrows"}

\* C12 as claimed: in a fund-moving call no store write is issued before the transfer,
\* and the custody-counter write precedes the record writes
C12_NoWriteBeforeTransfer ==
  \A i, j \in 1 .. Len(journal) :
    /\ (journal[j] = "transfer" /\ journal[i] \in StoreWrites) => j < i
    /\ (journal[i] = "EscrowedAmount" /\ journal[j] \in RecordWrites) => i < j

\* C12 amended: a fund-moving call makes at most one transfer; its record writes come
\* after the custody-counter write and after the transfer; the writes issued before the
\* transfer are the next-escrow-id counter in create and the custody counter in
\* approve_milestone, refund_escrow and emergency_refund_after_deadline
C12_InstructionOrder ==
  /\ Cardinality({j \in 1 .. Len(journal) : journal[j] = "transfer"}) <= 1
  /\ \A j \in 1 .. Len(journal) :
       journal[j] = "transfer" =>
         SubSeq(journal, 1, j - 1) =
           IF call.op = "create_escrow" THEN <<"NextEscrowId">> ELSE <<"EscrowedAmount">>
  /\ \A i, j \in 1 .. Len(journal) :
       (journal[i] \in {"EscrowedAmount", "transfer"} /\ journal[j] \in RecordWrites)
         => i < j

\* C12 witness: approve_milestone has written the custody counter and has then made
\* its transfer
C12_Witness ==
  /\ call # NoCall
  /\ call.op = "approve_milestone"
  /\ journal = <<"EscrowedAmount", "transfer">>

\* C13: in every mutating operation the authorization proof of the account named in the
\* call is the first check: a call without the proof fails on it, whatever else holds
C13_AuthorizationFirst ==
  /\ \A fee_bp \in FeeInputs :
       /\ initialize_result(OwnerAccount, fee_bp, FALSE) = "AuthFailed"
       /\ set_platform_fee_bp_result(fee_bp, FALSE) = "AuthFailed"
  /\ \A arbiters \in CreateArbiterCounts, required_confirmations \in CreateConfirmations,
        milestone_amounts \in CreateMilestoneLists, skew \in DescriptionSkews,
        token \in AllTokens \cup {None}, duration \in CreateDurations :
       create_escrow_result(FALSE, arbiters, required_confirmations, milestone_amounts,
                            Len(milestone_amounts) + skew, token, duration) = "AuthFailed"
  /\ \A i \in EscrowIdInputs, a \in Accounts :
       /\ start_work_result(i, a, FALSE) = "AuthFailed"
       /\ refund_escrow_result(i, a, FALSE) = "AuthFailed"
       /\ emergency_refund_after_deadline_result(i, a, FALSE) = "AuthFailed"
       /\ accept_freelancer_result(i, a, FALSE) = "AuthFailed"
       /\ \A x \in ExtraSeconds : extend_deadline_result(i, a, FALSE, x) = "AuthFailed"
       /\ \A m \in MilestoneIndexInputs :
            /\ submit_milestone_result(i, m, a, FALSE) = "AuthFailed"
            /\ resubmit_milestone_result(i, m, a, FALSE) = "AuthFailed"
            /\ approve_milestone_result(i, m, a, FALSE) = "AuthFailed"
            /\ reject_milestone_result(i, m, a, FALSE) = "AuthFailed"
            /\ dispute_milestone_result(i, m, a, FALSE) = "AuthFailed"

\* C14: start_work, submit_milestone and resubmit_milestone change the state only for
\* the stored beneficiary; approve_milestone, reject_milestone, refund_escrow,
\* emergency_refund_after_deadline and extend_deadline only for the stored depositor;
\* dispute_milestone only for the depositor or the beneficiary, and for any other
\* caller it returns the authorization error OnlyDepositor
C14_RoleGating ==
  /\ [](\A i \in DOMAIN escrows, m \in MilestoneIndexInputs, a \in Accounts :
          (a # escrows[i].depositor /\ a # escrows[i].beneficiary) =>
            dispute_milestone_result(i, m, a, TRUE) = "OnlyDepositor")
  /\ [][ \/ UNCHANGED vars
         \/ \A i \in DOMAIN escrows, a \in Accounts, authorized \in BOOLEAN :
              /\ a # escrows[i].beneficiary =>
                   /\ ~start_work(i, a, authorized)
                   /\ \A m \in MilestoneIndexInputs :
                        /\ ~submit_milestone(i, m, a, authorized)
                        /\ ~resubmit_milestone(i, m, a, authorized)
              /\ a # escrows[i].depositor =>
                   /\ \A token_ok \in BOOLEAN :
                        /\ ~refund_escrow(i, a, authorized, token_ok)
                        /\ ~emergency_refund_after_deadline(i, a, authorized, token_ok)
                        /\ \A m \in MilestoneIndexInputs :
                             ~approve_milestone(i, m, a, authorized, token_ok)
                   /\ \A m \in MilestoneIndexInputs : ~reject_milestone(i, m, a, authorized)
                   /\ \A x \in ExtraSeconds : ~extend_deadline(i, a, authorized, x)
              /\ (a # escrows[i].depositor /\ a # escrows[i].beneficiary) =>
                   \A m \in MilestoneIndexInputs : ~dispute_milestone(i, m, a, authorized)
       ]_vars

\* C14 witness: an escrow in progress with a Submitted milestone, which carol, neither
\* its depositor nor its beneficiary, could otherwise approve, reject or dispute
C14_Witness ==
  \E i \in DOMAIN escrows :
    /\ escrows[i].status = "InProgress"
    /\ escrows[i].depositor # "carol"
    /\ escrows[i].beneficiary # "carol"
    /\ \E m \in DOMAIN milestones[i] : milestones[i][m].status = "Submitted"
    /\ ledger < escrows[i].deadline

\* C15: the platform_fee of an escrow is floor(total_amount * fee_bp / 10000) for the
\* fee rate stored when the escrow is created, it never changes afterwards, whatever
\* set_platform_fee_bp does, and start_work adds that stored value to the fee counter
C15_FeeFrozen ==
  [][ \A i \in EscrowIdInputs :
        /\ (i \notin DOMAIN escrows /\ i \in DOMAIN escrows') =>
             /\ 10000 * escrows'[i].platform_fee <= escrows'[i].total_amount * platform_fee_bp
             /\ escrows'[i].total_amount * platform_fee_bp
                  < 10000 * (escrows'[i].platform_fee + 1)
        /\ i \in DOMAIN escrows =>
             /\ escrows'[i].platform_fee = escrows[i].platform_fee
             /\ (~escrows[i].work_started /\ escrows'[i].work_started) =>
                  fees'[token_key(escrows[i].token)] =
                    fees[token_key(escrows[i].token)] + escrows[i].platform_fee
    ]_vars

\* C15 witness: work has started on an escrow of 20 created at 1000 basis points, its fee
\* of 2 is in the fee counter, and the fee rate is now 500
C15_Witness ==
  \E i \in DOMAIN escrows :
    /\ escrows[i].work_started
    /\ escrows[i].total_amount = 20
    /\ escrows[i].platform_fee = 2
    /\ fees[token_key(escrows[i].token)] = 2
    /\ platform_fee_bp = 500

RECURSIVE SumFees(_, _)
\* the sum of platform_fee over the escrows of ids whose token key is key and on which
\* work has started
SumFees(ids, key) ==
  IF ids = {} THEN 0
  ELSE LET i == CHOOSE x \in ids : TRUE
           e == escrows[i]
           term == IF token_key(e.token) = key /\ e.work_started THEN e.platform_fee ELSE 0
       IN term + SumFees(ids \ {i}, key)

C17_FeeRateBounded ==
  /\ [](/\ platform_fee_bp <= 1000
        /\ \A fee_bp \in FeeInputs :
             /\ (fee_bp > 1000 /\ owner = None) =>
                  \A authorized \in BOOLEAN :
                    initialize_result(OwnerAccount, fee_bp, authorized) = "FeeTooHigh"
             /\ (fee_bp > 1000 /\ owner # None) =>
                  set_platform_fee_bp_result(fee_bp, TRUE) = "FeeTooHigh"
        /\ owner # None => set_platform_fee_bp_result(1000, TRUE) = "Ok")
  /\ [][ /\ \A fee_bp \in FeeInputs, authorized \in BOOLEAN :
              (/\ fee_bp > 1000
               /\ \/ initialize(OwnerAccount, fee_bp, authorized)
                  \/ set_platform_fee_bp(fee_bp, authorized)) => UNCHANGED vars
         /\ (owner # None /\ set_platform_fee_bp(1000, TRUE)) => platform_fee_bp' = 1000
       ]_vars

\* C17 witness: an escrow of 20 carries the fee of 1 of the rate of 500 given to
\* initialize, and the owner has since set the rate to 1000
C17_Witness ==
  /\ owner # None
  /\ platform_fee_bp = 1000
  /\ \E i \in DOMAIN escrows :
       escrows[i].total_amount = 20 /\ escrows[i].platform_fee = 1

C19_CreateChecks ==
  /\ [](\A arbiters \in CreateArbiterCounts, required_confirmations \in CreateConfirmations,
           milestone_amounts \in CreateMilestoneLists, skew \in DescriptionSkews,
           token \in AllTokens \cup {None}, duration \in CreateDurations :
          LET failing ==
                <<paused,
                  duration < 3600 \/ duration > 31536000,
                  skew # 0,
                  Len(milestone_amounts) > 20,
                  arbiters > 5,
                  required_confirmations > arbiters,
                  token # None /\ token \notin whitelisted>>
              errors ==
                <<"JobCreationPaused", "InvalidDuration", "MilestoneCountMismatch",
                  "TooManyMilestones", "TooManyArbiters", "InvalidConfirmations",
                  "TokenNotWhitelisted">>
              firsts == {n \in 1..7 : failing[n] /\ \A m \in 1..(n - 1) : ~failing[m]}
              result == create_escrow_result(TRUE, arbiters, required_confirmations,
                                             milestone_amounts,
                                             Len(milestone_amounts) + skew, token, duration)
          IN /\ firsts = {} <=> result = "Ok"
             /\ \A n \in firsts : result = errors[n])
  /\ [][ \A i \in EscrowIdInputs :
          (i \notin DOMAIN escrows /\ i \in DOMAIN escrows') =>
            /\ ~paused
            /\ escrows'[i].deadline - ledger >= 3600 \div 5
            /\ escrows'[i].deadline - ledger <= 31536000 \div 5
            /\ escrows'[i].milestone_count <= 20
            /\ escrows'[i].milestone_count = Cardinality(DOMAIN milestones'[i])
            /\ escrows'[i].arbiters <= 5
            /\ escrows'[i].required_confirmations <= escrows'[i].arbiters
            /\ escrows'[i].token = None \/ escrows'[i].token \in whitelisted
       ]_vars

\* C19 witness: an escrow in the second token, whitelisted by the owner, was created with
\* five arbiters and one required confirmation
C19_Witness ==
  \E i \in DOMAIN escrows :
    /\ escrows[i].token = "tokB"
    /\ escrows[i].arbiters = 5
    /\ escrows[i].required_confirmations = 1

\* C20: a successful create at ledger sequence n with duration d and total T stores an
\* escrow with status Pending, paid_amount 0, work_started false and deadline
\* n + floor(d / 5) (n + 1440 for d = 7200), is_open_job true exactly when no beneficiary
\* was given, one NotStarted milestone per supplied amount at the indices 0..count-1, and
\* adds exactly T to the escrowed counter of the asset
C20_CreatePersists ==
  [][ next_escrow_id' # next_escrow_id =>
        \A depositor \in Depositors, authorized \in BOOLEAN,
           beneficiary \in Freelancers \cup {None},
           arbiters \in CreateArbiterCounts, required_confirmations \in CreateConfirmations,
           milestone_amounts \in CreateMilestoneLists, skew \in DescriptionSkews,
           token \in AllTokens \cup {None}, total_amount \in CreateTotalAmounts,
           duration \in CreateDurations, token_ok \in BOOLEAN :
          create_escrow(depositor, authorized, beneficiary, arbiters,
                        required_confirmations, milestone_amounts,
                        Len(milestone_amounts) + skew, token, total_amount, duration,
                        token_ok) =>
            LET i == next_escrow_id
                count == Len(milestone_amounts)
            IN /\ i \notin DOMAIN escrows
               /\ DOMAIN escrows' = DOMAIN escrows \cup {i}
               /\ escrows'[i].status = "Pending"
               /\ escrows'[i].paid_amount = 0
               /\ escrows'[i].work_started = FALSE
               /\ escrows'[i].total_amount = total_amount
               /\ escrows'[i].deadline = ledger + (duration \div 5)
               /\ duration = 7200 => escrows'[i].deadline = ledger + 1440
               /\ escrows'[i].is_open_job <=> beneficiary = None
               /\ escrows'[i].milestone_count = count
               /\ DOMAIN milestones'[i] = 0 .. (count - 1)
               /\ \A k \in 0 .. (count - 1) :
                    /\ milestones'[i][k].status = "NotStarted"
                    /\ milestones'[i][k].amount = milestone_amounts[k + 1]
               /\ escrowed' = [escrowed EXCEPT ![token_key(token)] = @ + total_amount]
    ]_vars

\* C20 witness: an open job of 20 with two milestones was created at sequence 7 with a
\* duration of 7200 seconds: its deadline is 1447 and the escrowed counter holds 20
C20_Witness ==
  \E i \in DOMAIN escrows :
    /\ escrows[i].status = "Pending"
    /\ escrows[i].is_open_job
    /\ escrows[i].total_amount = 20
    /\ escrows[i].deadline = 1447
    /\ DOMAIN milestones[i] = {0, 1}
    /\ escrowed[token_key(escrows[i].token)] = 20

\* C21 as claimed: every escrow record in the store has total_amount > 0
C21_TotalPositive ==
  \A i \in DOMAIN escrows : escrows[i].total_amount > 0

\* C22: emergency_refund_after_deadline succeeds only for the depositor, at a ledger
\* sequence greater than deadline + 2592000, on an escrow that is neither Released nor
\* Refunded and whose total_amount - paid_amount is positive; it then sets the status
\* Expired and subtracts total_amount - paid_amount from the escrowed counter; the
\* depositor's call up to deadline + 2592000 returns EmergencyPeriodNotReached, and after
\* it on a Released or Refunded escrow CannotRefund
C22_EmergencyRefund ==
  /\ [](\A i \in DOMAIN escrows :
          LET e == escrows[i]
              result == emergency_refund_after_deadline_result(i, e.depositor, TRUE)
          IN /\ ledger <= e.deadline + 2592000 => result = "EmergencyPeriodNotReached"
             /\ (ledger > e.deadline + 2592000 /\ e.status \in {"Released", "Refunded"})
                  => result = "CannotRefund")
  /\ [][ \/ UNCHANGED vars
         \/ \A i \in EscrowIdInputs, a \in Accounts, authorized \in BOOLEAN,
               token_ok \in BOOLEAN :
              emergency_refund_after_deadline(i, a, authorized, token_ok) =>
                /\ i \in DOMAIN escrows
                /\ authorized
                /\ a = escrows[i].depositor
                /\ ledger > escrows[i].deadline + 2592000
                /\ escrows[i].status \notin {"Released", "Refunded"}
                /\ escrows[i].total_amount - escrows[i].paid_amount > 0
                /\ escrows'[i].status = "Expired"
                /\ escrowed' =
                     [escrowed EXCEPT ![token_key(escrows[i].token)] =
                        @ - (escrows[i].total_amount - escrows[i].paid_amount)]
       ]_vars

\* C22 witness: after a first payment of 10 out of 20 the escrow was refunded by the
\* emergency refund: it is Expired past the grace period and its counter is back at 0
C22_Witness ==
  \E i \in DOMAIN escrows :
    /\ escrows[i].status = "Expired"
    /\ escrows[i].total_amount = 20
    /\ escrows[i].paid_amount = 10
    /\ ledger > escrows[i].deadline + 2592000
    /\ escrowed[token_key(escrows[i].token)] = 0

\* C23: extend_deadline succeeds only for the depositor, with 0 < extra_seconds <= 2592000
\* (else InvalidExtension) and status Pending or InProgress (else CannotExtend); it adds
\* exactly extra_seconds to the deadline and leaves every other field of the escrow, the
\* milestones and the counters as they were; no step lowers the deadline of an escrow
C23_ExtendDeadline ==
  /\ [](\A i \in DOMAIN escrows, extra_seconds \in ExtraSeconds :
          extend_deadline_result(i, escrows[i].depositor, TRUE, extra_seconds)
            = IF extra_seconds <= 0 \/ extra_seconds > 2592000 THEN "InvalidExtension"
              ELSE IF escrows[i].status \notin {"Pending", "InProgress"} THEN "CannotExtend"
              ELSE "Ok")
  /\ [][ /\ \A i \in DOMAIN escrows : escrows'[i].deadline >= escrows[i].deadline
         /\ \/ UNCHANGED vars
            \/ \A i \in EscrowIdInputs, a \in Accounts, authorized \in BOOLEAN,
                  extra_seconds \in ExtraSeconds :
                 extend_deadline(i, a, authorized, extra_seconds) =>
                   /\ i \in DOMAIN escrows
                   /\ authorized
                   /\ a = escrows[i].depositor
                   /\ 0 < extra_seconds /\ extra_seconds <= 2592000
                   /\ escrows[i].status \in {"Pending", "InProgress"}
                   /\ escrows' = [escrows EXCEPT ![i].deadline = @ + extra_seconds]
                   /\ UNCHANGED <<milestones, escrowed, fees, next_escrow_id, user_escrows,
                                  reputation, completed, admin_vars, ledger, balances>>
       ]_vars

\* C23 witness: the deadline of an escrow in progress, 720 at creation, was extended by
\* 2592000
C23_Witness ==
  \E i \in DOMAIN escrows :
    /\ escrows[i].status = "InProgress"
    /\ escrows[i].deadline = 720 + 2592000

\* C24: reject_milestone on a Submitted milestone sets it Rejected with its reason, and
\* resubmit_milestone on a Rejected milestone returns it to Submitted with the reason
\* cleared; while the escrow is InProgress the depositor can reject every Submitted
\* milestone and the beneficiary can resubmit every Rejected one, so the cycle repeats
\* without limit; submit, reject and resubmit leave the escrow records, the two counters
\* of every asset and the token balances as they were
C24_RejectResubmit ==
  /\ [](\A i \in DOMAIN escrows, m \in MilestoneIndexInputs :
          (escrows[i].status = "InProgress" /\ m \in DOMAIN milestones[i]) =>
            /\ milestones[i][m].status = "Submitted" =>
                 reject_milestone_result(i, m, escrows[i].depositor, TRUE) = "Ok"
            /\ milestones[i][m].status = "Rejected" =>
                 resubmit_milestone_result(i, m, escrows[i].beneficiary, TRUE) = "Ok")
  /\ [][ \/ UNCHANGED vars
         \/ \A i \in EscrowIdInputs, m \in MilestoneIndexInputs, a \in Accounts,
               authorized \in BOOLEAN :
              /\ reject_milestone(i, m, a, authorized) =>
                   /\ milestones[i][m].status = "Submitted"
                   /\ milestones'[i][m].status = "Rejected"
                   /\ milestones'[i][m].rejection_reason = TRUE
                   /\ UNCHANGED <<escrows, escrowed, fees, balances>>
              /\ resubmit_milestone(i, m, a, authorized) =>
                   /\ milestones[i][m].status = "Rejected"
                   /\ milestones'[i][m].status = "Submitted"
                   /\ milestones'[i][m].rejection_reason = FALSE
                   /\ UNCHANGED <<escrows, escrowed, fees, balances>>
              /\ submit_milestone(i, m, a, authorized) =>
                   /\ milestones'[i][m].status = "Submitted"
                   /\ UNCHANGED <<escrows, escrowed, fees, balances>>
       ]_vars

\* C24 witness: a milestone of an escrow in progress is Rejected with its reason, and
\* the whole deposit is still in the escrowed counter
C24_Witness ==
  \E i \in DOMAIN escrows :
    /\ escrows[i].status = "InProgress"
    /\ escrows[i].paid_amount = 0
    /\ escrowed[token_key(escrows[i].token)] = escrows[i].total_amount
    /\ \E m \in DOMAIN milestones[i] :
         milestones[i][m].status = "Rejected" /\ milestones[i][m].rejection_reason = TRUE

\* escrow i has a milestone that was disputed
HasDispute(i) ==
  \E m \in DOMAIN milestones[i] : milestones[i][m].status = "Disputed"

\* C25: dispute_milestone succeeds only on an InProgress escrow for a milestone that is
\* Submitted or Approved and sets that milestone and the escrow to Disputed; once an
\* escrow has a disputed milestone, every submit, resubmit, approve, reject and dispute
\* on any of its milestones fails, and its paid_amount and the statuses of its
\* milestones never change again
C25_DisputeFreezes ==
  /\ [](\A i \in DOMAIN escrows :
          HasDispute(i) =>
            /\ escrows[i].status # "InProgress"
            /\ \A m \in MilestoneIndexInputs, a \in Accounts :
                 /\ submit_milestone_result(i, m, a, TRUE) # "Ok"
                 /\ resubmit_milestone_result(i, m, a, TRUE) # "Ok"
                 /\ approve_milestone_result(i, m, a, TRUE) # "Ok"
                 /\ reject_milestone_result(i, m, a, TRUE) # "Ok"
                 /\ dispute_milestone_result(i, m, a, TRUE) # "Ok")
  /\ [][ /\ \A i \in DOMAIN escrows :
              HasDispute(i) =>
                /\ escrows'[i].paid_amount = escrows[i].paid_amount
                /\ \A m \in DOMAIN milestones[i] :
                     milestones'[i][m].status = milestones[i][m].status
         /\ \/ UNCHANGED vars
            \/ \A i \in EscrowIdInputs, m \in MilestoneIndexInputs, a \in Accounts,
                  authorized \in BOOLEAN :
                 dispute_milestone(i, m, a, authorized) =>
                   /\ escrows[i].status = "InProgress"
                   /\ milestones[i][m].status \in {"Submitted", "Approved"}
                   /\ milestones'[i][m].status = "Disputed"
                   /\ escrows'[i].status = "Disputed"
       ]_vars

\* C25 witness: the milestone of 10 that was approved and paid has then been disputed,
\* and the escrow is Disputed with paid_amount 10
C25_Witness ==
  \E i \in DOMAIN escrows :
    /\ escrows[i].status = "Disputed"
    /\ escrows[i].paid_amount = 10
    /\ \E m \in DOMAIN milestones[i] :
         milestones[i][m].status = "Disputed" /\ milestones[i][m].amount = 10
    /\ \A m \in DOMAIN milestones[i] : milestones[i][m].status # "Approved"

\* C26 as claimed: the ids of the successive successful creates are 1, 2, 3, ... without
\* repeats and gaps, 0 is never issued, create never overwrites an existing escrow
\* record, and require_valid_escrow returns EscrowNotFound exactly for the id 0 and the
\* ids without a record
C26_IdsSuccessive ==
  /\ [](/\ 0 \notin DOMAIN escrows
        /\ \A i \in IdInputs :
             require_valid_escrow(i) = "EscrowNotFound" <=> (i = 0 \/ i \notin DOMAIN escrows))
  /\ [][ next_escrow_id' = next_escrow_id + 1 =>
           /\ next_escrow_id \notin DOMAIN escrows
           /\ DOMAIN escrows' = 1 .. next_escrow_id
       ]_vars

\* C27: is_open_job is true exactly when the escrow has no beneficiary; the beneficiary
\* of an escrow changes only from absent to present, by accept_freelancer of the
\* depositor, while the status is Pending and work_started is false, and never changes
\* once present
C27_OpenJob ==
  /\ [](\A i \in DOMAIN escrows :
          /\ escrows[i].is_open_job <=> escrows[i].beneficiary = None
          /\ escrows[i].beneficiary # None =>
               \A a \in Accounts : accept_freelancer_result(i, a, TRUE) # "Ok")
  /\ [][ \A i \in DOMAIN escrows :
          escrows'[i].beneficiary # escrows[i].beneficiary =>
            /\ escrows[i].beneficiary = None
            /\ escrows'[i].beneficiary # None
            /\ ~escrows'[i].is_open_job
            /\ escrows[i].status = "Pending"
            /\ ~escrows[i].work_started
            /\ accept_freelancer(i, escrows[i].depositor, TRUE, escrows'[i].beneficiary)
       ]_vars

\* C27 witness: work has started on an escrow whose index of the beneficiary holds the
\* escrow and which is no open job
C27_Witness ==
  \E i \in DOMAIN escrows :
    /\ escrows[i].beneficiary \in Freelancers
    /\ ~escrows[i].is_open_job
    /\ escrows[i].work_started
    /\ user_escrows[escrows[i].beneficiary] = <<i>>

\* the number of eligible Released escrows in which user is a party
CompletedEscrowsOf(user) ==
  Cardinality({i \in DOMAIN escrows :
                 /\ escrows[i].status = "Released"
                 /\ escrows[i].total_amount >= MIN_REP_ELIGIBLE_ESCROW_VALUE
                 /\ user \in {escrows[i].depositor, escrows[i].beneficiary}})

\* the number of roles, depositor and beneficiary, user has in eligible Released escrows
CompletedRolesOf(user) ==
  Cardinality({i \in DOMAIN escrows :
                 /\ escrows[i].status = "Released"
                 /\ escrows[i].total_amount >= MIN_REP_ELIGIBLE_ESCROW_VALUE
                 /\ user = escrows[i].depositor})
  + Cardinality({i \in DOMAIN escrows :
                   /\ escrows[i].status = "Released"
                   /\ escrows[i].total_amount >= MIN_REP_ELIGIBLE_ESCROW_VALUE
                   /\ user = escrows[i].beneficiary})

\* what an approval that pays escrow i adds to the reputation of user: 10 to the
\* beneficiary, and 25 for each of the two roles at the completing approval, above the
\* eligibility floor
ReputationCredit(i, user) ==
  LET eligible == escrows[i].total_amount >= MIN_REP_ELIGIBLE_ESCROW_VALUE
      complete == escrows'[i].paid_amount = escrows[i].total_amount
  IN (IF eligible /\ user = escrows[i].beneficiary THEN 10 ELSE 0)
     + (IF eligible /\ complete /\ user = escrows[i].beneficiary THEN 25 ELSE 0)
     + (IF eligible /\ complete /\ user = escrows[i].depositor THEN 25 ELSE 0)

\* what an approval that pays escrow i adds to the completed-escrow counter of user
CompletedCredit(i, user) ==
  LET eligible == escrows[i].total_amount >= MIN_REP_ELIGIBLE_ESCROW_VALUE
      complete == escrows'[i].paid_amount = escrows[i].total_amount
  IN (IF eligible /\ complete /\ user = escrows[i].beneficiary THEN 1 ELSE 0)
     + (IF eligible /\ complete /\ user = escrows[i].depositor THEN 1 ELSE 0)

\* C28 as claimed: the completed-escrow counter of every user equals the number of
\* eligible Released escrows in which the user is a party
C28_CompletedIsEscrowCount ==
  \A user \in Accounts : completed[user] = CompletedEscrowsOf(user)

\* C28: above the eligibility floor every successful approval adds 10 to the reputation
\* of the beneficiary, and the approval that makes paid_amount equal total_amount adds
\* 25 to the reputation and 1 to the completed-escrow counter of the beneficiary and of
\* the depositor, twice to an account that is both; below the floor and in every other
\* step nothing changes; the completed-escrow counter of a user equals the number of
\* roles the user has in eligible Released escrows
C28_ReputationAccounting ==
  /\ [](\A user \in Accounts : completed[user] = CompletedRolesOf(user))
  /\ [][ \A i \in DOMAIN escrows :
          IF escrows'[i].paid_amount # escrows[i].paid_amount
          THEN /\ reputation' =
                    [user \in Accounts |-> reputation[user] + ReputationCredit(i, user)]
               /\ completed' =
                    [user \in Accounts |-> completed[user] + CompletedCredit(i, user)]
          ELSE UNCHANGED <<reputation, completed>>
       ]_vars

\* C28 witness: the depositor is the beneficiary of a Released escrow of 20 with two
\* milestones: the account has 10 + 10 + 25 + 25 reputation and 2 completed escrows
C28_Witness ==
  \E i \in DOMAIN escrows :
    /\ escrows[i].status = "Released"
    /\ escrows[i].beneficiary = escrows[i].depositor
    /\ reputation[escrows[i].depositor] = 70
    /\ completed[escrows[i].depositor] = 2

\* C29 as claimed: the escrowed counter of every asset is non-negative in every
\* reachable state
C29_EscrowedNonNegative ==
  \A k \in TokenKeys : escrowed[k] >= 0

\* the escrow ids listed in the index of account
ListedIds(account) ==
  {user_escrows[account][k] : k \in DOMAIN user_escrows[account]}

MaxPairs == 2               \* create_escrow is called while the id counter is at most this
PairIds == 1 .. MaxPairs
PairCallers == Depositors \cup Freelancers    \* the parties of the escrows

CreatePair ==
  /\ next_escrow_id <= MaxPairs
  /\ \A duration \in Durations : ledger + (duration \div LEDGER_SECONDS) <= MaxDeadline
  /\ \E depositor \in Depositors, beneficiary \in Freelancers \cup {None},
        token \in Tokens \cup {None}, token_ok \in BOOLEAN :
       create_escrow(depositor, TRUE, beneficiary, 0, 0, <<20>>, 1, token, 20,
                     3600, token_ok)
  /\ UNCHANGED step_vars

StartWorkPair ==
  /\ \E escrow_id \in PairIds, caller \in PairCallers :
       start_work(escrow_id, caller, TRUE)
  /\ UNCHANGED step_vars

SubmitMilestonePair ==
  /\ \E escrow_id \in PairIds, milestone_index \in MilestoneIndexInputs,
        caller \in PairCallers :
       submit_milestone(escrow_id, milestone_index, caller, TRUE)
  /\ UNCHANGED step_vars

ResubmitMilestonePair ==
  /\ \E escrow_id \in PairIds, milestone_index \in MilestoneIndexInputs,
        caller \in PairCallers :
       resubmit_milestone(escrow_id, milestone_index, caller, TRUE)
  /\ UNCHANGED step_vars

ApproveMilestonePair ==
  /\ \E escrow_id \in PairIds, milestone_index \in MilestoneIndexInputs,
        caller \in PairCallers, token_ok \in BOOLEAN :
       approve_milestone(escrow_id, milestone_index, caller, TRUE, token_ok)
  /\ UNCHANGED step_vars

RejectMilestonePair ==
  /\ \E escrow_id \in PairIds, milestone_index \in MilestoneIndexInputs,
        caller \in PairCallers :
       reject_milestone(escrow_id, milestone_index, caller, TRUE)
  /\ UNCHANGED step_vars

DisputeMilestonePair ==
  /\ \E escrow_id \in PairIds, milestone_index \in MilestoneIndexInputs,
        caller \in PairCallers :
       dispute_milestone(escrow_id, milestone_index, caller, TRUE)
  /\ UNCHANGED step_vars

RefundEscrowPair ==
  /\ \E escrow_id \in PairIds, caller \in PairCallers, token_ok \in BOOLEAN :
       refund_escrow(escrow_id, caller, TRUE, token_ok)
  /\ UNCHANGED step_vars

EmergencyRefundPair ==
  /\ \A k \in TokenKeys : escrowed[k] >= 0
  /\ \E escrow_id \in PairIds, caller \in PairCallers, token_ok \in BOOLEAN :
       emergency_refund_after_deadline(escrow_id, caller, TRUE, token_ok)
  /\ UNCHANGED step_vars

AcceptFreelancerPair ==
  /\ \E escrow_id \in PairIds, caller \in PairCallers, freelancer \in Freelancers :
       accept_freelancer(escrow_id, caller, TRUE, freelancer)
  /\ UNCHANGED step_vars

NextPair ==
  \/ CreatePair
  \/ StartWorkPair
  \/ SubmitMilestonePair
  \/ ResubmitMilestonePair
  \/ ApproveMilestonePair
  \/ RejectMilestonePair
  \/ DisputeMilestonePair
  \/ RefundEscrowPair
  \/ EmergencyRefundPair
  \/ AcceptFreelancerPair
  \/ AdvanceLedger

SpecPair == Init /\ [][NextPair]_all_vars

\* an operation of the contract called on escrow a (create_escrow: a is the id
\* it issues)
OperationOn(a) ==
  \/ /\ a = next_escrow_id
     /\ \E depositor \in Depositors, beneficiary \in Freelancers \cup {None},
           token \in Tokens \cup {None}, token_ok \in BOOLEAN :
          create_escrow(depositor, TRUE, beneficiary, 0, 0, <<20>>, 1, token, 20, 3600,
                        token_ok)
  \/ \E caller \in PairCallers :
       \/ start_work(a, caller, TRUE)
       \/ \E freelancer \in Freelancers : accept_freelancer(a, caller, TRUE, freelancer)
       \/ \E token_ok \in BOOLEAN :
            \/ refund_escrow(a, caller, TRUE, token_ok)
            \/ emergency_refund_after_deadline(a, caller, TRUE, token_ok)
       \/ \E milestone_index \in MilestoneIndexInputs :
            \/ submit_milestone(a, milestone_index, caller, TRUE)
            \/ resubmit_milestone(a, milestone_index, caller, TRUE)
            \/ reject_milestone(a, milestone_index, caller, TRUE)
            \/ dispute_milestone(a, milestone_index, caller, TRUE)
            \/ \E token_ok \in BOOLEAN :
                 approve_milestone(a, milestone_index, caller, TRUE, token_ok)

\* the asset of escrow a after the step
AssetAfter(a) ==
  IF escrows'[a].token = None THEN ContractAddress ELSE escrows'[a].token

\* the step leaves every escrow other than a, and the counters of every asset
\* other than a's, as they were
FrameOf(a) ==
  /\ \A b \in DOMAIN escrows :
       b # a => /\ b \in DOMAIN escrows'
                /\ b \in DOMAIN milestones'
                /\ escrows'[b] = escrows[b]
                /\ milestones'[b] = milestones[b]
  /\ \A k \in TokenKeys :
       (a \in DOMAIN escrows' => k # AssetAfter(a)) =>
         /\ escrowed'[k] = escrowed[k]
         /\ fees'[k] = fees[k]

TransferredOut(i) ==
  escrows[i].total_amount - balances[token_key(escrows[i].token)][ContractAddress]

\* C32: for every escrow, what the contract has transferred out on its behalf
\* (milestone payouts, refund and emergency refunds together) never exceeds
\* its total_amount
C32_OutWithinTotal ==
  \A i \in DOMAIN escrows : TransferredOut(i) <= escrows[i].total_amount

\* an escrow has been paid in part and the rest went back to the depositor
C32_Witness ==
  \E i \in DOMAIN escrows :
    /\ escrows[i].status = "Expired"
    /\ escrows[i].paid_amount > 0
    /\ TransferredOut(i) = escrows[i].total_amount

\* C33: emergency_refund_after_deadline succeeds at most once per escrow: on
\* an escrow that is Expired, every emergency_refund_after_deadline and every
\* refund_escrow fails, and such a call changes neither the escrowed counters
\* nor the balances
C33_EmergencyOnce ==
  /\ [](\A i \in DOMAIN escrows :
          escrows[i].status = "Expired" =>
            \A caller \in Accounts, authorized \in BOOLEAN :
              /\ emergency_refund_after_deadline_result(i, caller, authorized) # "Ok"
              /\ refund_escrow_result(i, caller, authorized) # "Ok")
  /\ [][ \A i \in DOMAIN escrows :
           (escrows[i].status = "Expired" /\ ledger' = ledger) =>
             /\ escrowed' = escrowed
             /\ balances' = balances ]_vars

\* an escrow has been refunded by emergency_refund_after_deadline
C33_Witness ==
  \E i \in DOMAIN escrows :
    /\ escrows[i].status = "Expired"
    /\ escrowed[token_key(escrows[i].token)] = 0
    /\ ledger > escrows[i].deadline + EMERGENCY_REFUND_DELAY

\* C34: the escrowed counter tracks custody: for every asset, native included,
\* the counter equals what create_escrow deposited minus what the contract
\* transferred out, and every decrement of the counter comes with a transfer
\* of the same amount out of the contract
C34_CounterTracksCustody ==
  /\ [](\A k \in TokenKeys : escrowed[k] = balances[k][ContractAddress])
  /\ [][ \A k \in TokenKeys :
           escrowed'[k] < escrowed[k] =>
             balances[k][ContractAddress] - balances'[k][ContractAddress]
               = escrowed[k] - escrowed'[k] ]_vars

\* a milestone of an escrow of the native asset has been paid: the counter and
\* the custody of the native asset went down together
C34_Witness ==
  \E i \in DOMAIN escrows :
    /\ escrows[i].token = None
    /\ escrows[i].paid_amount > 0
    /\ escrowed[ContractAddress] = balances[ContractAddress][ContractAddress]
    /\ escrowed[ContractAddress] = escrows[i].total_amount - escrows[i].paid_amount

\* C35: a Pending escrow has work_started false, paid_amount 0 and every
\* milestone NotStarted; an escrow with work_started true is never Pending
\* or Refunded; so start_work and refund_escrow never return
\* WorkAlreadyStarted, and a successful refund_escrow returns the whole
\* total_amount to the depositor
C35_PendingUntouched ==
  /\ [](\A i \in DOMAIN escrows :
          LET e == escrows[i] IN
          /\ e.status = "Pending" =>
               /\ ~e.work_started
               /\ e.paid_amount = 0
               /\ \A m \in DOMAIN milestones[i] : milestones[i][m].status = "NotStarted"
          /\ e.work_started => e.status \notin {"Pending", "Refunded"}
          /\ \A caller \in Accounts, authorized \in BOOLEAN :
               /\ start_work_result(i, caller, authorized) # "WorkAlreadyStarted"
               /\ refund_escrow_result(i, caller, authorized) # "WorkAlreadyStarted")
  /\ [][ \A i \in DOMAIN escrows :
           LET e == escrows[i]
               k == token_key(e.token)
           IN
           (e.status # "Refunded" /\ escrows'[i].status = "Refunded") =>
             /\ balances'[k][e.depositor] = balances[k][e.depositor] + e.total_amount
             /\ balances'[k][ContractAddress] = balances[k][ContractAddress] - e.total_amount
       ]_vars

\* one escrow was refunded in full before its work started
C35_Witness ==
  \E i \in DOMAIN escrows :
    /\ escrows[i].status = "Refunded"
    /\ ~escrows[i].work_started
    /\ balances[token_key(escrows[i].token)][escrows[i].depositor] = 0

\* C36: an escrow that is InProgress, Released or Disputed, or whose
\* work_started is true, has a beneficiary; start_work is refused on an escrow
\* without a beneficiary (an open job), whoever calls; and approve_milestone
\* passes its checks only on an escrow that has a beneficiary
C36_BeneficiaryPresent ==
  \A i \in DOMAIN escrows :
    LET e == escrows[i] IN
    /\ (e.status \in {"InProgress", "Released", "Disputed"} \/ e.work_started) =>
         e.beneficiary # None
    /\ e.beneficiary = None =>
         \A caller \in Accounts, authorized \in BOOLEAN :
           start_work_result(i, caller, authorized) # "Ok"
    /\ \A m \in MilestoneIndexInputs, caller \in Accounts, authorized \in BOOLEAN :
         approve_milestone_result(i, m, caller, authorized) = "Ok" => e.beneficiary # None

\* the beneficiary of an escrow started the work and submitted a milestone the
\* depositor may approve
C36_Witness ==
  \E i \in DOMAIN escrows :
    /\ escrows[i].beneficiary # None
    /\ ~escrows[i].is_open_job
    /\ escrows[i].work_started
    /\ \E m \in DOMAIN milestones[i] :
         approve_milestone_result(i, m, escrows[i].depositor, TRUE) = "Ok"

RECURSIVE SumApproved(_, _)
\* the sum of the amounts of the milestones of escrow i, among those of indexes
\* ms, that are Approved
SumApproved(i, ms) ==
  IF ms = {} THEN 0
  ELSE LET m == CHOOSE x \in ms : TRUE
           term == IF milestones[i][m].status = "Approved"
                   THEN milestones[i][m].amount
                   ELSE 0
       IN term + SumApproved(i, ms \ {m})

\* C37: paid_amount of an escrow is the sum of the amounts of its milestones
\* that were ever approved: those that are Approved, plus the one that was
\* disputed after its approval, if any; a milestone is paid when it goes from
\* Submitted to Approved, once, because an Approved milestone stays Approved or
\* becomes Disputed and a Disputed milestone stays Disputed
C37_PaidIsSumApproved ==
  /\ [](\A i \in DOMAIN escrows :
          LET sum == SumApproved(i, DOMAIN milestones[i]) IN
          \/ escrows[i].paid_amount = sum
          \/ \E m \in DOMAIN milestones[i] :
               /\ milestones[i][m].status = "Disputed"
               /\ escrows[i].paid_amount = sum + milestones[i][m].amount)
  /\ [][ \A i \in DOMAIN escrows :
           /\ \A m \in DOMAIN milestones[i] :
                LET before == milestones[i][m].status
                    after == milestones'[i][m].status
                IN
                /\ (after = "Approved" /\ before # "Approved") =>
                     /\ before = "Submitted"
                     /\ escrows'[i].paid_amount
                          = escrows[i].paid_amount + milestones[i][m].amount
                /\ before = "Approved" => after \in {"Approved", "Disputed"}
                /\ before = "Disputed" => after = "Disputed"
           /\ escrows'[i].paid_amount # escrows[i].paid_amount =>
                \E m \in DOMAIN milestones[i] :
                  /\ milestones[i][m].status = "Submitted"
                  /\ milestones'[i][m].status = "Approved" ]_vars

\* a milestone was paid and then disputed, and another one is Approved
C37_Witness ==
  \E i \in DOMAIN escrows :
    /\ escrows[i].status = "Disputed"
    /\ SumApproved(i, DOMAIN milestones[i]) > 0
    /\ escrows[i].paid_amount > SumApproved(i, DOMAIN milestones[i])

\* C38: a Released escrow has paid_amount = total_amount and every milestone
\* Approved; an escrow becomes Released only in a step that approves one of
\* its milestones
C38_ReleasedAllApproved ==
  /\ [](\A i \in DOMAIN escrows :
          escrows[i].status = "Released" =>
            /\ escrows[i].paid_amount = escrows[i].total_amount
            /\ \A m \in DOMAIN milestones[i] : milestones[i][m].status = "Approved")
  /\ [][ \A i \in DOMAIN escrows :
           (escrows[i].status # "Released" /\ escrows'[i].status = "Released") =>
             \E m \in DOMAIN milestones[i] :
               /\ milestones[i][m].status = "Submitted"
               /\ milestones'[i][m].status = "Approved" ]_vars

\* an escrow was released by the approval of its last milestone
C38_Witness ==
  \E i \in DOMAIN escrows :
    /\ escrows[i].status = "Released"
    /\ escrows[i].paid_amount = escrows[i].total_amount
    /\ \A m \in DOMAIN milestones[i] : milestones[i][m].status = "Approved"

\* C39: the two refund windows are disjoint: in no state would both
\* refund_escrow and emergency_refund_after_deadline succeed on the same
\* escrow; refund_escrow succeeds only while the ledger sequence is below the
\* deadline, emergency_refund_after_deadline only when it is above the
\* deadline plus EMERGENCY_REFUND_DELAY
C39_WindowsDisjoint ==
  \A i \in DOMAIN escrows : \A caller \in Accounts, authorized \in BOOLEAN :
    LET refund == refund_escrow_result(i, caller, authorized) = "Ok"
        emergency ==
          \E other \in Accounts, auth \in BOOLEAN :
            emergency_refund_after_deadline_result(i, other, auth) = "Ok"
    IN
    /\ ~(refund /\ emergency)
    /\ refund => ledger < escrows[i].deadline
    /\ emergency_refund_after_deadline_result(i, caller, authorized) = "Ok" =>
         ledger > escrows[i].deadline + EMERGENCY_REFUND_DELAY

\* an escrow that could be refunded before its deadline is, later, past the
\* grace period and open to the emergency refund
C39_Witness ==
  \E i \in DOMAIN escrows :
    /\ escrows[i].status = "Pending"
    /\ emergency_refund_after_deadline_result(i, escrows[i].depositor, TRUE) = "Ok"
    /\ refund_escrow_result(i, escrows[i].depositor, TRUE) = "DeadlineNotPassed"

\* ------------------------------------------------- an abandoned escrow
\* One escrow of two milestones of the initialized contract, of the native
\* asset or of tokA, on which extend_deadline is no longer called.  The ledger
\* sequence keeps growing (weak fairness of AdvanceLedger) and the depositor
\* keeps calling emergency_refund_after_deadline (weak fairness of the call):
\* these are the two hypotheses under which the funds are said to come back.
CreateLive ==
  /\ next_escrow_id <= MaxEscrows
  /\ \A duration \in Durations : ledger + (duration \div LEDGER_SECONDS) <= MaxDeadline
  /\ \E depositor \in Depositors, beneficiary \in Freelancers \cup {None},
        token \in Tokens \cup {None}, token_ok \in BOOLEAN :
       create_escrow(depositor, TRUE, beneficiary, 0, 0, <<10, 10>>, 2, token, 20,
                     3600, token_ok)
  /\ UNCHANGED step_vars

NextLive ==
  \/ CreateLive
  \/ StartWorkPair
  \/ SubmitMilestonePair
  \/ ResubmitMilestonePair
  \/ ApproveMilestonePair
  \/ RejectMilestonePair
  \/ DisputeMilestonePair
  \/ RefundEscrowPair
  \/ EmergencyRefundPair
  \/ AcceptFreelancerPair
  \/ AdvanceLedger

SpecLive ==
  /\ Init
  /\ [][NextLive]_all_vars
  /\ WF_all_vars(AdvanceLedger)
  /\ WF_all_vars(EmergencyRefundPair)

\* escrow i holds funds that are neither paid nor refunded
Locked(i) ==
  /\ i \in DOMAIN escrows
  /\ escrows[i].status \in NonTerminal
  /\ escrows[i].total_amount - escrows[i].paid_amount > 0

\* escrow i was paid in full or refunded, or it is Expired and its depositor
\* has received back all of the deposit that was not paid to the beneficiary
Returned(i) ==
  /\ i \in DOMAIN escrows
  /\ \/ escrows[i].status \in {"Released", "Refunded"}
     \/ /\ escrows[i].status = "Expired"
        /\ balances[token_key(escrows[i].token)][escrows[i].depositor]
             >= 0 - escrows[i].paid_amount

\* C40: funds are never locked for ever: an escrow that is Pending, InProgress
\* or Disputed with total_amount - paid_amount > 0 and whose deadline is no
\* longer extended is, as the ledger advances, eventually refunded by
\* emergency_refund_after_deadline of its depositor, the remaining amount
\* being transferred back to the depositor (unless it is paid in full or
\* refunded by refund_escrow before)
C40_FundsReturned ==
  \A i \in 1 .. MaxEscrows : Locked(i) ~> Returned(i)

\* an escrow of a token was abandoned after one payment and its depositor got
\* the rest back by the emergency refund
C40_Witness ==
  \E i \in DOMAIN escrows :
    /\ escrows[i].token # None
    /\ escrows[i].status = "Expired"
    /\ escrows[i].paid_amount > 0
    /\ balances[token_key(escrows[i].token)][escrows[i].depositor]
         = 0 - escrows[i].paid_amount

====
